---- MODULE Spec2Model ----
(***************************************************************************)
(* Model of the rag-vector-storage-service ingestion pipeline.             *)
(*                                                                         *)
(* Part 1: the Artifact Scanner (lib/handlers/src/vector-indexing-poller)  *)
(*         with its checkpoint table and the upstream embeddings bucket.   *)
(***************************************************************************)
EXTENDS Integers, Sequences, FiniteSets, TLC

\* ------------------------------------------------------------------ bounds
MaxTs == 2
MaxHash == 2
MaxStore == 3
BATCH_SIZE == 2
MaxMsgs == 2
MaxDocs == 2
ChunksPerDoc == 1
MaxBatch == 2

\* How often the DLQ handler may receive one message.
MaxDlqReceives == 1

\* Records of one batch of the part_006 handler (the event source allows 1000).
MaxRecords == 9

\* Payloads of one upsert request.
MaxPayloads == 2

\* Chunk references of one status document.
MaxChunks == 3

\* Scores in tenths, and hits returned by the index for one query.
MaxScore == 10

MaxHits == 2

\* Request Signer: identities, signing times and bodies of the two calls.
MaxIdentities == 2

MaxSignTime == 2

MaxBodies == 2

\* ------------------------------------------------------ program constants
maxReceiveCount == 3

\* listNewObjects of part_004: MaxKeys of its ListObjectsV2.
AltMaxKeys == 100

\* ------------------------------------------------------------ object keys
\* An object key of the embeddings bucket.  kind "json" is
\* "<timestamp>-<64 hex>.json", kind "txt" is the same name with another
\* extension ("<timestamp>-<64 hex>.txt"), kind "plain" is a name without a
\* timestamp prefix ("notes.txt").
ValidKeys == [ts : 1..MaxTs, hash : 1..MaxHash, kind : {"json"}]

JunkKeys == [ts : 1..MaxTs, hash : 1..MaxHash, kind : {"txt"}]
            \cup {[ts |-> 0, hash |-> 0, kind |-> "plain"]}

KeyUniverse == ValidKeys \cup JunkKeys

\* The null key (lastContiguousKey = null).
NoKey == [ts |-> 0, hash |-> 0, kind |-> "none"]

\* Position of a key in the bucket's (UTF-8 binary) listing order, which is
\* also the order of localeCompare on these names: timestamp, then hash,
\* then extension ("json" < "txt"); a letter-initial name follows every
\* digit-initial one.
KeyOrd(k) ==
    IF k.kind = "plain" THEN MaxTs * MaxHash * 2 + 1
    ELSE (k.ts - 1) * MaxHash * 2 + (k.hash - 1) * 2
         + (IF k.kind = "json" THEN 1 ELSE 2)

isTimestampHashKey(k) == k.kind = "json"

extractTimestampFromKey(k) == k.ts

\* -------------------------------------------------------- sequence helpers
RECURSIVE SortedSeq(_)
SortedSeq(S) ==
    IF S = {} THEN <<>>
    ELSE LET m == CHOOSE x \in S : \A y \in S : KeyOrd(x) <= KeyOrd(y)
         IN <<m>> \o SortedSeq(S \ {m})

Take(s, n) == IF Len(s) <= n THEN s ELSE SubSeq(s, 1, n)

Range(s) == {s[i] : i \in 1..Len(s)}

RECURSIVE InsertByKeyDesc(_, _)
InsertByKeyDesc(x, s) ==
    IF s = <<>> THEN <<x>>
    ELSE IF KeyOrd(x) >= KeyOrd(Head(s)) THEN <<x>> \o s
         ELSE <<Head(s)>> \o InsertByKeyDesc(x, Tail(s))

RECURSIVE InsertByKey(_, _)
InsertByKey(x, s) ==
    IF s = <<>> THEN <<x>>
    ELSE IF KeyOrd(x) < KeyOrd(Head(s)) THEN <<x>> \o s
         ELSE <<Head(s)>> \o InsertByKey(x, Tail(s))

RECURSIVE SortByKeyDesc(_)
SortByKeyDesc(s) ==
    IF s = <<>> THEN <<>> ELSE InsertByKeyDesc(Head(s), SortByKeyDesc(Tail(s)))

\* .sort((a, b) => a.Key.localeCompare(b.Key))
RECURSIVE SortByKey(_)
SortByKey(s) ==
    IF s = <<>> THEN <<>> ELSE InsertByKey(Head(s), SortByKey(Tail(s)))

\* ------------------------------------------------------------------- state
VARIABLES
    bucket,                  \* keys of the objects in the embeddings bucket
    checkpointTable,         \* items of the checkpoint table (at most one)
    pollerPc,                \* position of the Scanner invocation
    checkpoint,              \* handler local: result of getCheckpoint()
    newObjects,              \* handler local: result of listNewEmbeddings()
    objIdx,                  \* handler local: position of the for loop
    processedCount,          \* handler local
    lastContiguousKey,       \* handler local
    lastContiguousTimestamp, \* handler local
    pollerOutcome,           \* how the last invocation ended
    runLog,                  \* history: sendToProcessingQueue calls of this run
    wrote,                   \* history: this run wrote the checkpoint
    prevLog,                 \* history: runLog of the run before
    prevWrote,               \* history: wrote of the run before
    bucketAtList,            \* history: the bucket when this run listed it
    enqueuedEver,            \* history: keys whose enqueue succeeded
    impl,                    \* which worker handler is deployed
    reportBatchItemFailures, \* event source mapping option
    statusDocs,              \* documents whose status object is in the bucket
    sink,                    \* chunk ids held by the external sink
    metadata,                \* objects of the vector-metadata bucket
    queue,                   \* messages of the processing queue
    workerPc,                \* position of the worker invocation
    batch,                   \* event.Records of the invocation (message ids)
    recIdx,                  \* handler local: position of the for loop
    task,                    \* per record: position and locals of its task
    batchItemFailures,       \* handler local
    deletedByWorker,         \* history: status objects the worker deleted
    vectorIndex,             \* objects of the vector index bucket (vectors/)
    indexStatus,             \* items of the vector index table
    failureRecords,          \* dlq-records/ objects of the metadata bucket
    fallbackItems,           \* table items the DLQ handler marked failed
    dlqPc,                   \* position of the DLQ handler invocation
    dlqMsg,                  \* DLQ handler: the record of the for loop
    dlqBatch,                \* DLQ handler: event.Records (message ids)
    dlqIdx,                  \* DLQ handler: position of the for loop
    dlqResults,              \* DLQ handler: results (one entry per record)
    dlqVersion,              \* which DLQ handler is deployed (1 or 2)
    dlqBatchSize,            \* batchSize of the DLQ event source mapping
    resolverIn,              \* what a status request finds in the stores
    resolverOut,             \* the status the Status Resolver returned
    queryDoc,                \* the document of the status request
    queryHadRecord,          \* history: a failure record of the document
                             \* was in the metadata bucket at the request
    abandoned,               \* history: per message, how far its task had
                             \* come when its invocation was last abandoned
                             \* (until a task of the message next finishes)
    poolRecs,                \* part_006 handler: state of each record's promise
    poolIdx,                 \* part_006 handler: i of the allSettled loop
    poolPc,                  \* part_006 handler: position of the invocation
    signerIn,                \* Request Signer: credentials and header fields
    signerOut,               \* Request Signer: what sign() returned
    upsertPayloads,          \* part_005 upsert: number of payloads
    sinkRequest,             \* part_005 upsert: the request to the sink
    prepRefs,                \* prepareUpsertPayloads: status.chunkReferences
    prepIdx,                 \* prepareUpsertPayloads: position of the for loop
    prepDl,                  \* prepareUpsertPayloads: the two downloads of
                             \* the chunk
    prepPayloads,            \* prepareUpsertPayloads: payloads
    prepPc,                  \* position of the task around the preparation
    prepRequest,             \* the chunks of the upsert request body
    prepOk,                  \* history: chunks whose preparation succeeded
    searchReq,               \* POST /search: threshold and hits of the index
    searchResp,              \* POST /search: the response
    otherInvocation,         \* locals of a second, suspended Scanner
                             \* invocation
    altPc,                   \* S3 poller (part_004): position
    altCheckpoint,           \* S3 poller: result of getCurrentCheckpoint()
    altObjects,              \* S3 poller: result of listNewObjects()
    altIdx,                  \* S3 poller: position in the loop
    altLast,                 \* S3 poller: lastProcessedKey/Timestamp locals
    altOutcome,              \* S3 poller: "none" | "running" | "ok" | "error"
    altFault,                \* history: the read of this run that threw
    altProcessed,            \* history: keys this run processed
    altWrote,                \* history: this run wrote the checkpoint
    signReq,                 \* Request Signer: two calls (credentials, time,
                             \* url, body)
    signSig,                 \* Request Signer: the signature of each call
    signSts                  \* what STS answers to the headers of each call

pollerLocals == <<checkpoint, newObjects, objIdx, processedCount,
                  lastContiguousKey, lastContiguousTimestamp>>

pollerHistory == <<runLog, wrote, prevLog, prevWrote, bucketAtList,
                   enqueuedEver>>

indexStores == <<vectorIndex, indexStatus>>

stores == <<statusDocs, sink, metadata, deletedByWorker, indexStores>>

invocation == <<workerPc, batch, recIdx, task, batchItemFailures>>

dlqVars == <<failureRecords, fallbackItems, dlqPc, dlqMsg, dlqBatch, dlqIdx,
            dlqResults, dlqVersion, dlqBatchSize>>

resolverVars == <<resolverIn, resolverOut, queryDoc, queryHadRecord>>

poolVars == <<poolRecs, poolIdx, poolPc>>

signerVars == <<signerIn, signerOut, upsertPayloads, sinkRequest>>

prepVars == <<prepRefs, prepIdx, prepDl, prepPayloads, prepPc, prepRequest,
             prepOk>>

searchVars == <<searchReq, searchResp>>

altVars == <<altPc, altCheckpoint, altObjects, altIdx, altLast, altOutcome,
            altFault, altProcessed, altWrote>>

\* The components that come after the search API.
signVars == <<signReq, signSig, signSts>>

tailVars == <<otherInvocation, altVars, signVars>>

auxVars == <<poolVars, signerVars, prepVars, searchVars, tailVars>>

restVars == <<dlqVars, resolverVars, abandoned, auxVars>>

workerVars == <<impl, reportBatchItemFailures, stores, queue, invocation,
                restVars>>

pollerVars == <<bucket, checkpointTable, pollerPc, pollerLocals, pollerOutcome,
                pollerHistory>>

vars == <<pollerVars, workerVars>>

\* Everything but the auxiliary components.
coreVars == <<pollerVars, impl, reportBatchItemFailures, stores, queue,
              invocation, dlqVars, resolverVars, abandoned>>

PoolFrame == UNCHANGED <<coreVars, signerVars, prepVars, searchVars,
                         tailVars>>

SignerFrame == UNCHANGED <<coreVars, poolVars, prepVars, searchVars,
                           tailVars>>

PrepFrame == UNCHANGED <<coreVars, poolVars, signerVars, searchVars,
                         tailVars>>

SearchFrame == UNCHANGED <<coreVars, poolVars, signerVars, prepVars,
                           tailVars>>

\* ------------------------------------------------------- external services
\* S3 ListObjectsV2 {MaxKeys, StartAfter}: the keys after startAfter in
\* ascending key order, at most maxKeys of them.  after = {} is an absent
\* StartAfter.
ListObjectsV2(maxKeys, after) ==
    LET from == IF after = {} THEN bucket
                ELSE {k \in bucket :
                        \A a \in after : KeyOrd(k) > KeyOrd(a.lastProcessedKey)}
    IN Take(SortedSeq(from), maxKeys)

\* A listing that ignores the checkpoint altogether.
listFromStart(cp) ==
    SortByKey(SelectSeq(ListObjectsV2(BATCH_SIZE, {}),
                        LAMBDA k : isTimestampHashKey(k)))

\* The listing without the MaxKeys cap.
listUncapped(cp) ==
    LET contents == ListObjectsV2(Cardinality(bucket), cp)
        validFiles == SortByKey(SelectSeq(contents,
                                          LAMBDA k : isTimestampHashKey(k)))
    IN IF cp # {}
       THEN SelectSeq(validFiles,
                LAMBDA k : \A c \in cp :
                    extractTimestampFromKey(k) > c.lastProcessedTimestamp)
       ELSE validFiles

listNewEmbeddings(cp) ==
    LET contents == ListObjectsV2(BATCH_SIZE, cp)
        validFiles == SortByKey(SelectSeq(contents,
                                          LAMBDA k : isTimestampHashKey(k)))
    IN IF cp # {}
       THEN SelectSeq(validFiles,
                LAMBDA k : \A c \in cp :
                    extractTimestampFromKey(k) > c.lastProcessedTimestamp)
       ELSE validFiles

CheckpointRecord(timestamp, objectKey) ==
    [lastProcessedTimestamp |-> timestamp, lastProcessedKey |-> objectKey]

\* -------------------------------------------------------------------- Init
InitPoller ==
    /\ checkpointTable = {}
    /\ pollerPc = "idle"
    /\ checkpoint = {}
    /\ newObjects = <<>>
    /\ objIdx = 0
    /\ processedCount = 0
    /\ lastContiguousKey = NoKey
    /\ lastContiguousTimestamp = 0
    /\ pollerOutcome = "none"
    /\ runLog = <<>>
    /\ wrote = FALSE
    /\ prevLog = <<>>
    /\ prevWrote = FALSE
    /\ bucketAtList = {}
    /\ enqueuedEver = {}

\* --------------------------------------------------- worker: data and Init
Msgs == 1..MaxMsgs

Docs == 1..MaxDocs

\* chunkReferences of the status document of d: the chunk ids.
Chunks(d) == {<<d, c>> : c \in 1..ChunksPerDoc}

\* A message body: an S3 event notification with one record, for the status
\* object of document d, or (0) an event without Records (s3:TestEvent).
Bodies == Docs \cup {0}

IdleTask == [pc |-> "idle", survivors |-> {}, valid |-> TRUE,
             upserted |-> FALSE, resp |-> "none"]

\* What a status request finds: which version of the resolver serves it
\* (1: lines 91-170, 2: lines 406-470 of status-handler.ts), the success
\* record of the document in the metadata bucket ("full": status attribute
\* 'completed' / body with embeddingSummary, "bare": no status attribute /
\* body without embeddingSummary, "other": another status value / a body
\* that is not JSON), whether a failure record of the document exists, the
\* upstream object, and the reads that end in an error other than not-found.
Reads == {"success1", "success2", "failure1", "failure2", "upstream"}

ResolverInputs ==
    [version : {1, 2},
     success : {"none", "full", "bare", "other"},
     failure : BOOLEAN,
     upstream : {"none", "incomplete", "completed"},
     faults : SUBSET Reads]

NoInput == [version |-> 1, success |-> "none", failure |-> FALSE,
            upstream |-> "none", faults |-> {}]

NoQuery ==
    /\ queryDoc = 0
    /\ queryHadRecord = FALSE

NoRequest ==
    /\ resolverIn = NoInput
    /\ resolverOut = "none"
    /\ NoQuery

NoPool ==
    /\ poolRecs = <<>>
    /\ poolIdx = 0
    /\ poolPc = "idle"

SignerInputs == [credentials : BOOLEAN, date : BOOLEAN,
                 contentHash : BOOLEAN, authorization : BOOLEAN]

NoSigner ==
    /\ signerIn = [credentials |-> FALSE, date |-> FALSE,
                   contentHash |-> FALSE, authorization |-> FALSE]
    /\ signerOut = "none"
    /\ upsertPayloads = 0
    /\ sinkRequest = "none"

NoPrep ==
    /\ prepRefs = <<>>
    /\ prepIdx = 0
    /\ prepDl = [content |-> "pending", embedding |-> "pending"]
    /\ prepPayloads = <<>>
    /\ prepPc = "idle"
    /\ prepRequest = <<>>
    /\ prepOk = {}

\* No response yet.
NoResponse == [status |-> "none", results |-> <<>>, threshold |-> 0]

NoSearch ==
    /\ searchReq = [threshold |-> [given |-> FALSE, value |-> 0],
                    hits |-> <<>>]
    /\ searchResp = NoResponse

\* Locals of a Scanner invocation that has not started.
IdleInvocation ==
    [pollerPc |-> "idle", checkpoint |-> {}, newObjects |-> <<>>,
     objIdx |-> 0, processedCount |-> 0, lastContiguousKey |-> NoKey,
     lastContiguousTimestamp |-> 0]

\* The checkpoint getCurrentCheckpoint returns when the table has no item:
\* lastProcessedKey '' and lastProcessedTimestamp 1970-01-01T00:00:00.000Z.
DefaultCheckpoint ==
    [lastProcessedTimestamp |-> 0, lastProcessedKey |-> NoKey]

NoAlt ==
    /\ altPc = "idle"
    /\ altCheckpoint = DefaultCheckpoint
    /\ altObjects = <<>>
    /\ altIdx = 0
    /\ altLast = DefaultCheckpoint
    /\ altOutcome = "none"
    /\ altFault = "none"
    /\ altProcessed = {}
    /\ altWrote = FALSE

\* A call of the Request Signer: the identity of the ambient credentials,
\* the signing time, and the url and body of the request to sign.
SignCall(c, t, u, b) == [credentials |-> c, time |-> t, url |-> u, body |-> b]

\* No signature yet.
NoSignature == [credentials |-> 0, time |-> 0, url |-> "none", body |-> 0]

NoSign ==
    /\ signReq = <<SignCall(1, 1, "upsert", 0), SignCall(1, 1, "upsert", 0)>>
    /\ signSig = <<NoSignature, NoSignature>>
    /\ signSts = <<"none", "none">>

NoTail ==
    /\ otherInvocation = IdleInvocation
    /\ NoAlt
    /\ NoSign

NoAux ==
    /\ NoPool
    /\ NoSigner
    /\ NoPrep
    /\ NoSearch
    /\ NoTail

\* The DLQ handler between invocations, no record written yet.
DlqIdle ==
    /\ failureRecords = {}
    /\ fallbackItems = {}
    /\ dlqPc = "idle"
    /\ dlqMsg = 0
    /\ dlqBatch = <<>>
    /\ dlqIdx = 0
    /\ dlqResults = <<>>

\* The first stack: the first DLQ handler, batchSize 1.
InitDlq ==
    /\ abandoned = [m \in Msgs |-> "none"]
    /\ DlqIdle
    /\ dlqVersion = 1
    /\ dlqBatchSize = 1

\* The worker between invocations, its stores empty.
WorkerIdle(i, r) ==
    /\ impl = i
    /\ reportBatchItemFailures = r
    /\ statusDocs = {}
    /\ sink = {}
    /\ metadata = {}
    /\ deletedByWorker = {}
    /\ vectorIndex = {}
    /\ indexStatus = [d \in Docs |-> "none"]
    /\ workerPc = "idle"
    /\ batch = <<>>
    /\ recIdx = 0
    /\ task = [m \in Msgs |-> IdleTask]
    /\ batchItemFailures = <<>>

InitWorker(i, r) ==
    /\ InitDlq
    /\ WorkerIdle(i, r)
    /\ queue = [m \in Msgs |-> [state |-> "unsent", rc |-> 0, body |-> 0]]

Init ==
    /\ bucket = {}
    /\ InitPoller
    /\ InitWorker("none", FALSE)
    /\ NoRequest
    /\ NoAux

\* ------------------------------------------------------- upstream producer
\* The embedding service writes one more object.
Arrive(k) ==
    /\ k \notin bucket
    /\ Cardinality(bucket) < MaxStore
    /\ bucket' = bucket \cup {k}
    /\ UNCHANGED <<checkpointTable, pollerPc, pollerLocals, pollerOutcome,
                   pollerHistory>>
    /\ UNCHANGED workerVars

\* The same, when objects are created in key order: a new name sorts after
\* every name already in the bucket.
ArriveInOrder(k) ==
    /\ \A j \in bucket : KeyOrd(j) < KeyOrd(k)
    /\ Arrive(k)

\* --------------------------------------------------------- Scanner handler
\* getCheckpoint() succeeds: the stored item, or null.
PollerGetCheckpoint ==
    /\ pollerPc = "idle"
    /\ pollerPc' = "list"
    /\ checkpoint' = checkpointTable
    /\ newObjects' = <<>>
    /\ objIdx' = 0
    /\ processedCount' = 0
    /\ lastContiguousKey' = NoKey
    /\ lastContiguousTimestamp' = 0
    /\ pollerOutcome' = "running"
    /\ prevLog' = runLog
    /\ prevWrote' = wrote
    /\ runLog' = <<>>
    /\ wrote' = FALSE
    /\ bucketAtList' = {}
    /\ UNCHANGED <<bucket, checkpointTable, enqueuedEver>>
    /\ UNCHANGED workerVars

\* getCheckpoint() throws: the handler rethrows.
PollerGetCheckpointFail ==
    /\ pollerPc = "idle"
    /\ pollerOutcome' = "error"
    /\ checkpoint' = {}
    /\ newObjects' = <<>>
    /\ objIdx' = 0
    /\ processedCount' = 0
    /\ lastContiguousKey' = NoKey
    /\ lastContiguousTimestamp' = 0
    /\ prevLog' = runLog
    /\ prevWrote' = wrote
    /\ runLog' = <<>>
    /\ wrote' = FALSE
    /\ bucketAtList' = {}
    /\ UNCHANGED <<bucket, checkpointTable, pollerPc, enqueuedEver>>
    /\ UNCHANGED workerVars

\* listNewEmbeddings(checkpoint) succeeds.
PollerList ==
    /\ pollerPc = "list"
    /\ newObjects' = listNewEmbeddings(checkpoint)
    /\ pollerPc' = "listed"
    /\ bucketAtList' = bucket
    /\ UNCHANGED <<bucket, checkpointTable, checkpoint, objIdx, processedCount,
                   lastContiguousKey, lastContiguousTimestamp, pollerOutcome,
                   runLog, wrote, prevLog, prevWrote, enqueuedEver>>
    /\ UNCHANGED workerVars

\* listNewEmbeddings(checkpoint) throws: the handler rethrows.
PollerListFail ==
    /\ pollerPc = "list"
    /\ pollerPc' = "idle"
    /\ pollerOutcome' = "error"
    /\ UNCHANGED <<bucket, checkpointTable, pollerLocals, pollerHistory>>
    /\ UNCHANGED workerVars

\* if (newObjects.length === 0) return; else enter the loop.
PollerCheckEmpty ==
    /\ pollerPc = "listed"
    /\ IF Len(newObjects) = 0
       THEN /\ pollerPc' = "idle"
            /\ pollerOutcome' = "ok"
            /\ objIdx' = objIdx
       ELSE /\ pollerPc' = "loop"
            /\ pollerOutcome' = pollerOutcome
            /\ objIdx' = 1
    /\ UNCHANGED <<bucket, checkpointTable, checkpoint, newObjects,
                   processedCount, lastContiguousKey, lastContiguousTimestamp,
                   pollerHistory>>
    /\ UNCHANGED workerVars

\* Where the loop goes after the body ran for newObjects[objIdx].
AfterIteration ==
    IF objIdx < Len(newObjects)
    THEN /\ objIdx' = objIdx + 1
         /\ pollerPc' = "loop"
    ELSE /\ objIdx' = objIdx
         /\ pollerPc' = "checkpoint"

\* The enqueue that records the key but not its timestamp.
PollerEnqueueOkStaleTimestamp ==
    /\ pollerPc = "loop"
    /\ LET obj == newObjects[objIdx]
       IN /\ processedCount' = processedCount + 1
          /\ lastContiguousKey' = obj
          /\ lastContiguousTimestamp' = lastContiguousTimestamp
          /\ runLog' = Append(runLog, [key |-> obj, ok |-> TRUE])
          /\ enqueuedEver' = enqueuedEver \cup {obj}
    /\ AfterIteration
    /\ UNCHANGED <<bucket, checkpointTable, checkpoint, newObjects,
                   pollerOutcome, wrote, prevLog, prevWrote, bucketAtList>>
    /\ UNCHANGED workerVars

\* One iteration whose sendToProcessingQueue succeeds.
PollerEnqueueOk ==
    /\ pollerPc = "loop"
    /\ LET obj == newObjects[objIdx]
       IN /\ processedCount' = processedCount + 1
          /\ lastContiguousKey' = obj
          /\ lastContiguousTimestamp' = extractTimestampFromKey(obj)
          /\ runLog' = Append(runLog, [key |-> obj, ok |-> TRUE])
          /\ enqueuedEver' = enqueuedEver \cup {obj}
    /\ AfterIteration
    /\ UNCHANGED <<bucket, checkpointTable, checkpoint, newObjects,
                   pollerOutcome, wrote, prevLog, prevWrote, bucketAtList>>
    /\ UNCHANGED workerVars

\* A loop that logs the failure and goes on to the next object.
PollerEnqueueFailContinue ==
    /\ pollerPc = "loop"
    /\ runLog' = Append(runLog, [key |-> newObjects[objIdx], ok |-> FALSE])
    /\ AfterIteration
    /\ UNCHANGED <<bucket, checkpointTable, checkpoint, newObjects,
                   processedCount, lastContiguousKey, lastContiguousTimestamp,
                   pollerOutcome, wrote, prevLog, prevWrote, bucketAtList,
                   enqueuedEver>>
    /\ UNCHANGED workerVars

\* One iteration whose sendToProcessingQueue throws: break.
PollerEnqueueFail ==
    /\ pollerPc = "loop"
    /\ runLog' = Append(runLog, [key |-> newObjects[objIdx], ok |-> FALSE])
    /\ pollerPc' = "checkpoint"
    /\ UNCHANGED <<bucket, checkpointTable, checkpoint, newObjects, objIdx,
                   processedCount, lastContiguousKey, lastContiguousTimestamp,
                   pollerOutcome, wrote, prevLog, prevWrote, bucketAtList,
                   enqueuedEver>>
    /\ UNCHANGED workerVars

\* updateCheckpoint(): PutItem replaces the service's item.
updateCheckpoint(timestamp, objectKey) ==
    checkpointTable' = {CheckpointRecord(timestamp, objectKey)}

\* The checkpoint write without its guard processedCount > 0.
PollerUpdateCheckpointAlways ==
    /\ pollerPc = "checkpoint"
    /\ updateCheckpoint(lastContiguousTimestamp, lastContiguousKey)
    /\ wrote' = TRUE
    /\ pollerPc' = "idle"
    /\ pollerOutcome' = "ok"
    /\ UNCHANGED <<bucket, pollerLocals, runLog, prevLog, prevWrote,
                   bucketAtList, enqueuedEver>>
    /\ UNCHANGED workerVars

\* After the loop: the checkpoint write (when something was queued) succeeds.
PollerUpdateCheckpoint ==
    /\ pollerPc = "checkpoint"
    /\ IF processedCount > 0 /\ lastContiguousKey # NoKey
       THEN /\ updateCheckpoint(lastContiguousTimestamp, lastContiguousKey)
            /\ wrote' = TRUE
       ELSE /\ checkpointTable' = checkpointTable
            /\ wrote' = wrote
    /\ pollerPc' = "idle"
    /\ pollerOutcome' = "ok"
    /\ UNCHANGED <<bucket, pollerLocals, runLog, prevLog, prevWrote,
                   bucketAtList, enqueuedEver>>
    /\ UNCHANGED workerVars

\* After the loop: the checkpoint write throws, the handler rethrows.
PollerUpdateCheckpointFail ==
    /\ pollerPc = "checkpoint"
    /\ processedCount > 0 /\ lastContiguousKey # NoKey
    /\ pollerPc' = "idle"
    /\ pollerOutcome' = "error"
    /\ UNCHANGED <<bucket, checkpointTable, pollerLocals, pollerHistory>>
    /\ UNCHANGED workerVars

PollerStep ==
    \/ PollerGetCheckpoint
    \/ PollerGetCheckpointFail
    \/ PollerList
    \/ PollerListFail
    \/ PollerCheckEmpty
    \/ PollerEnqueueOk
    \/ PollerEnqueueFail
    \/ PollerUpdateCheckpoint
    \/ PollerUpdateCheckpointFail

Next ==
    \/ \E k \in KeyUniverse : Arrive(k)
    \/ PollerStep

Spec == Init /\ [][Next]_vars

\* The Scanner when the producer creates its objects in key order.
NextInOrder ==
    \/ \E k \in KeyUniverse : ArriveInOrder(k)
    \/ PollerStep

SpecInOrder == Init /\ [][NextInOrder]_vars

\* The Scanner with a producer that creates its objects in key order and
\* never gives two artifacts one timestamp, with runs that keep occurring and
\* calls that succeed in the end.
ArriveDistinctTs(k) ==
    /\ \A j \in bucket :
          isTimestampHashKey(j) /\ isTimestampHashKey(k) => j.ts # k.ts
    /\ ArriveInOrder(k)

NextLive ==
    \/ \E k \in KeyUniverse : ArriveDistinctTs(k)
    \/ PollerStep

PollerFairness ==
    /\ WF_vars(PollerGetCheckpoint)
    /\ SF_vars(PollerList)
    /\ WF_vars(PollerCheckEmpty)
    /\ SF_vars(PollerEnqueueOk)
    /\ SF_vars(PollerUpdateCheckpoint)

SpecLive == Init /\ [][NextLive]_vars /\ PollerFairness

\* ==================================================== the Delivery Worker
\* ----------------------------------------------- producer and queue (SQS)
\* The embedding service writes a status object and the bucket notifies the
\* queue (message m); or the bucket sends an event without Records.
ProducerPut(m, d) ==
    /\ queue[m].state = "unsent"
    /\ \A j \in Msgs : j < m => queue[j].state # "unsent"
    /\ queue' = [queue EXCEPT ![m] = [state |-> "visible", rc |-> 0, body |-> d]]
    /\ statusDocs' = IF d = 0 THEN statusDocs ELSE statusDocs \cup {d}
    /\ UNCHANGED <<impl, reportBatchItemFailures, sink, metadata,
                   deletedByWorker, indexStores, invocation, pollerVars, restVars>>

\* deadLetterQueue {maxReceiveCount}: a message received maxReceiveCount
\* times and visible again moves to the dead-letter queue.
SqsDeadLetter(m) ==
    /\ queue[m].state = "visible"
    /\ queue[m].rc >= maxReceiveCount
    /\ queue' = [queue EXCEPT ![m].state = "dlq"]
    /\ abandoned' = [abandoned EXCEPT ![m] = "none"]
    /\ UNCHANGED <<impl, reportBatchItemFailures, stores, invocation,
                   pollerVars, dlqVars, resolverVars, auxVars>>

RECURSIVE IdSeq(_)
IdSeq(S) ==
    IF S = {} THEN <<>>
    ELSE LET m == CHOOSE x \in S : \A y \in S : x <= y
         IN <<m>> \o IdSeq(S \ {m})

InBatch(m) == \E i \in 1..Len(batch) : batch[i] = m

\* What the event source mapping does with the messages of the batch when
\* the invocation ends.  failed: the ids of the response's batchItemFailures;
\* errored: the invocation threw or timed out.
EsmSettle(failed, errored) ==
    queue' = [m \in Msgs |->
                IF ~InBatch(m) THEN queue[m]
                ELSE IF errored \/ (reportBatchItemFailures /\ m \in failed)
                     THEN [queue[m] EXCEPT !.state = "visible"]
                     ELSE [queue[m] EXCEPT !.state = "done"]]

\* The first position of a task of the deployed handler.
FirstPc == "parse"

\* The event source mapping receives a batch and invokes the handler.
WorkerInvoke ==
    /\ impl # "none"
    /\ workerPc # "running"
    /\ \E B \in SUBSET {m \in Msgs : /\ queue[m].state = "visible"
                                    /\ queue[m].rc < maxReceiveCount} :
          /\ B # {}
          /\ Cardinality(B) <= MaxBatch
          /\ batch' = IdSeq(B)
          /\ queue' = [m \in Msgs |->
                         IF m \in B
                         THEN [queue[m] EXCEPT !.state = "inflight",
                                               !.rc = @ + 1]
                         ELSE queue[m]]
          /\ task' = [m \in Msgs |->
                        IF m \in B /\ (impl = "parallel" \/ m = IdSeq(B)[1])
                        THEN [IdleTask EXCEPT !.pc = FirstPc]
                        ELSE IF m \in B
                             THEN [IdleTask EXCEPT !.pc = "waiting"]
                             ELSE IdleTask]
    /\ workerPc' = "running"
    /\ recIdx' = 1
    /\ batchItemFailures' = <<>>
    /\ UNCHANGED <<impl, reportBatchItemFailures, stores, pollerVars, restVars>>

\* How far processVectorTask of the status worker has come: which of its
\* steps (upsert, metadata write, delete) are committed.
AbandonPoint(t) ==
    CASE t.pc \in {"parse", "download", "prepare", "upsert"} -> "beforeUpsert"
      [] t.pc = "metadata" -> "afterUpsert"
      [] t.pc = "delete" -> "afterMetadata"
      [] OTHER -> "none"

\* The abandonment without redelivery: the batch is acknowledged.
WorkerTimeoutAck ==
    /\ workerPc = "running"
    /\ workerPc' = "timedout"
    /\ EsmSettle({}, FALSE)
    /\ task' = [m \in Msgs |-> IdleTask]
    /\ recIdx' = 0
    /\ batchItemFailures' = <<>>
    /\ abandoned' = abandoned
    /\ UNCHANGED <<impl, reportBatchItemFailures, stores, batch, pollerVars,
                   dlqVars, resolverVars, auxVars>>

\* The invocation is abandoned at its time budget (or the process dies):
\* no response, every message of the batch becomes visible again.
WorkerTimeout ==
    /\ workerPc = "running"
    /\ workerPc' = "timedout"
    /\ EsmSettle({}, TRUE)
    /\ abandoned' = [m \in Msgs |->
                       IF impl = "sequential" /\ InBatch(m)
                          /\ AbandonPoint(task[m]) # "none"
                       THEN AbandonPoint(task[m])
                       ELSE abandoned[m]]
    /\ task' = [m \in Msgs |-> IdleTask]
    /\ recIdx' = 0
    /\ batchItemFailures' = <<>>
    /\ UNCHANGED <<impl, reportBatchItemFailures, stores, batch, pollerVars,
                   dlqVars, resolverVars, auxVars>>

\* The handler returns { batchItemFailures }.
WorkerReturn ==
    /\ workerPc = "running"
    /\ impl \in {"sequential", "parallel"}
    /\ \A i \in 1..Len(batch) : task[batch[i]].pc \in {"acked", "reported"}
    /\ workerPc' = "returned"
    /\ EsmSettle(Range(batchItemFailures), FALSE)
    /\ UNCHANGED <<impl, reportBatchItemFailures, stores, batch, recIdx, task,
                   batchItemFailures, pollerVars, restVars>>

\* ------------------------------ processVectorTask of the status worker
Active(m, pc) ==
    /\ workerPc = "running"
    /\ InBatch(m)
    /\ task[m].pc = pc

TaskFrame == UNCHANGED <<impl, reportBatchItemFailures, queue, workerPc, batch,
                         recIdx, batchItemFailures,
                         pollerVars, restVars>>

\* JSON.parse(record.body); no Records: warn and return.
StatusParse(m) ==
    /\ impl = "sequential"
    /\ Active(m, "parse")
    /\ task' = [task EXCEPT ![m].pc =
                   IF queue[m].body = 0 THEN "ok" ELSE "download"]
    /\ UNCHANGED stores
    /\ TaskFrame

\* downloadS3JsonObject(sourceBucket, sourceKey): the object, or a throw
\* (always, when the object is not there).
StatusDownload(m) ==
    /\ impl = "sequential"
    /\ Active(m, "download")
    /\ \/ /\ queue[m].body \in statusDocs
          /\ task' = [task EXCEPT ![m].pc = "prepare"]
       \/ task' = [task EXCEPT ![m].pc = "failed"]
    /\ UNCHANGED stores
    /\ TaskFrame

\* prepareUpsertPayloads: a chunk whose download fails is skipped.  The
\* downloaded text and vector and the fields of the status document are
\* copied as they are: the collection satisfies UpsertRequestSchema (v) or
\* does not; the empty collection does.
StatusPrepare(m) ==
    /\ impl = "sequential"
    /\ Active(m, "prepare")
    /\ \E S \in SUBSET Chunks(queue[m].body), v \in BOOLEAN :
          /\ S = {} => v
          /\ task' = [task EXCEPT ![m].pc = "upsert", ![m].survivors = S,
                                  ![m].valid = v]
    /\ UNCHANGED stores
    /\ TaskFrame

\* What the sink did and what fetch() gave back.
Responses == {"ok_json", "ok_text", "ok_html", "not_ok", "network_error"}

\* upsertVectorsToHomeServer: no payload: success without a request;
\* otherwise POST /api/upsert.
StatusUpsert(m) ==
    /\ impl = "sequential"
    /\ Active(m, "upsert")
    /\ IF task[m].survivors = {}
       THEN /\ task' = [task EXCEPT ![m].pc = "metadata"]
            /\ sink' = sink
       ELSE \E resp \in Responses :
               /\ sink' = IF resp \in {"ok_json", "ok_text"}
                          THEN sink \cup task[m].survivors
                          ELSE sink
               /\ task' = IF resp \in {"ok_json", "ok_text"}
                          THEN [task EXCEPT ![m].pc = "metadata",
                                            ![m].upserted = TRUE,
                                            ![m].resp = resp]
                          ELSE [task EXCEPT ![m].pc = "failed",
                                            ![m].resp = resp]
    /\ UNCHANGED <<statusDocs, metadata, deletedByWorker, indexStores>>
    /\ TaskFrame

\* The metadata key without its randomUUID() part.
VectorMetadataFixedKey(d, up) ==
    [documentId |-> d, n |-> 1, upserted |-> up]

\* The VectorMetadata object written under vector-metadata/<doc>/<uuid>.json:
\* n stands for the random uuid.
VectorMetadata(d, up) ==
    [documentId |-> d,
     n |-> Cardinality({r \in metadata : r.documentId = d}) + 1,
     upserted |-> up]

\* createVectorMetadata: PutObject succeeds or throws.
StatusMetadata(m) ==
    /\ impl = "sequential"
    /\ Active(m, "metadata")
    /\ \/ /\ metadata' = metadata
                \cup {VectorMetadata(queue[m].body, task[m].upserted)}
          /\ task' = [task EXCEPT ![m].pc = "delete"]
       \/ /\ metadata' = metadata
          /\ task' = [task EXCEPT ![m].pc = "failed"]
    /\ UNCHANGED <<statusDocs, sink, deletedByWorker, indexStores>>
    /\ TaskFrame

\* DeleteObject(sourceBucket, sourceKey) succeeds or throws.
StatusDelete(m) ==
    /\ impl = "sequential"
    /\ Active(m, "delete")
    /\ \/ /\ statusDocs' = statusDocs \ {queue[m].body}
          /\ deletedByWorker' = deletedByWorker \cup {queue[m].body}
          /\ task' = [task EXCEPT ![m].pc = "ok"]
       \/ /\ UNCHANGED <<statusDocs, deletedByWorker>>
          /\ task' = [task EXCEPT ![m].pc = "failed"]
    /\ UNCHANGED <<sink, metadata, indexStores>>
    /\ TaskFrame

\* ----------------------------------------- handler of the status worker
\* A catch block that only logs.
catchAndLog(m) == batchItemFailures' = batchItemFailures

\* catch: batchItemFailures.push({ itemIdentifier: record.messageId })
catchAndReport(m) == batchItemFailures' = Append(batchItemFailures, m)

\* The for loop: the task of the current record ended; the next one starts.
StatusLoop ==
    /\ impl = "sequential"
    /\ workerPc = "running"
    /\ recIdx <= Len(batch)
    /\ LET m == batch[recIdx]
       IN /\ task[m].pc \in {"ok", "failed"}
          /\ IF task[m].pc = "failed"
             THEN catchAndReport(m)
             ELSE batchItemFailures' = batchItemFailures
          /\ task' = [j \in Msgs |->
                        IF j = m
                        THEN [IdleTask EXCEPT !.pc =
                                 IF task[m].pc = "failed" THEN "reported"
                                 ELSE "acked"]
                        ELSE IF recIdx < Len(batch) /\ j = batch[recIdx + 1]
                             THEN [task[j] EXCEPT !.pc = FirstPc]
                             ELSE task[j]]
          /\ abandoned' = [abandoned EXCEPT ![m] = "none"]
    /\ recIdx' = recIdx + 1
    /\ UNCHANGED <<impl, reportBatchItemFailures, stores, queue, workerPc,
                   batch, pollerVars, dlqVars, resolverVars, auxVars>>

StatusTask(m) ==
    \/ StatusParse(m)
    \/ StatusDownload(m)
    \/ StatusPrepare(m)
    \/ StatusUpsert(m)
    \/ StatusMetadata(m)
    \/ StatusDelete(m)

\* ------------------------- the worker that stores vector index entries
\* JSON.parse(record.body); the loop over s3Event.Records returns in its
\* first pass, and without a record the task throws.  The keys of Docs have
\* the form embeddings/<documentId>/<chunkId>.json.
ParallelParse(m) ==
    /\ impl = "parallel"
    /\ Active(m, "parse")
    /\ task' = [task EXCEPT ![m].pc =
                   IF queue[m].body = 0 THEN "failed" ELSE "download"]
    /\ UNCHANGED stores
    /\ TaskFrame

\* downloadEmbeddingFile: the object, or a throw.
ParallelDownload(m) ==
    /\ impl = "parallel"
    /\ Active(m, "download")
    /\ \/ /\ queue[m].body \in statusDocs
          /\ task' = [task EXCEPT ![m].pc = "store"]
       \/ task' = [task EXCEPT ![m].pc = "failed"]
    /\ UNCHANGED stores
    /\ TaskFrame

\* The entry written under vectors/<documentId>/<uuid>.json: n stands for
\* the random uuid.
VectorIndexEntry(d) ==
    [documentId |-> d,
     n |-> Cardinality({e \in vectorIndex : e.documentId = d}) + 1]

\* storeVectorIndexEntry: PutObject succeeds or throws.
ParallelStore(m) ==
    /\ impl = "parallel"
    /\ Active(m, "store")
    /\ \/ /\ vectorIndex' = vectorIndex \cup {VectorIndexEntry(queue[m].body)}
          /\ task' = [task EXCEPT ![m].pc = "ok"]
       \/ /\ vectorIndex' = vectorIndex
          /\ task' = [task EXCEPT ![m].pc = "failed"]
    /\ UNCHANGED <<statusDocs, sink, metadata, deletedByWorker, indexStatus>>
    /\ TaskFrame

\* The promise of a record settles: return { success: true }, or the catch
\* block.  All the promises were started by event.Records.map.
ParallelSettle(m) ==
    /\ impl = "parallel"
    /\ workerPc = "running"
    /\ InBatch(m)
    /\ task[m].pc \in {"ok", "failed"}
    /\ IF task[m].pc = "failed"
       THEN catchAndReport(m)
       ELSE batchItemFailures' = batchItemFailures
    /\ task' = [task EXCEPT ![m] =
                   [IdleTask EXCEPT !.pc =
                       IF task[m].pc = "failed" THEN "reported" ELSE "acked"]]
    /\ UNCHANGED <<impl, reportBatchItemFailures, stores, queue, workerPc,
                   batch, recIdx, pollerVars, restVars>>

ParallelTask(m) ==
    \/ ParallelParse(m)
    \/ ParallelDownload(m)
    \/ ParallelStore(m)
    \/ ParallelSettle(m)

\* ------------------------ processVectorIndexingTask of the indexer
\* JSON.parse(record.body): the Scanner's task message.
IndexerParse(m) ==
    /\ impl = "indexer"
    /\ Active(m, "parse")
    /\ task' = [task EXCEPT ![m].pc = "download"]
    /\ UNCHANGED stores
    /\ TaskFrame

\* downloadEmbeddingData: the object, or a throw (always, when the object
\* is not there).
IndexerDownload(m) ==
    /\ impl = "indexer"
    /\ Active(m, "download")
    /\ \/ /\ queue[m].body \in statusDocs
          /\ task' = [task EXCEPT ![m].pc = "markProcessing"]
       \/ task' = [task EXCEPT ![m].pc = "failed"]
    /\ UNCHANGED stores
    /\ TaskFrame

\* updateIndexingStatus: PutItem, a failure is logged and swallowed.
updateIndexingStatus(d, status) ==
    \/ indexStatus' = [indexStatus EXCEPT ![d] = status]
    \/ indexStatus' = indexStatus

\* The first status update with 'success' instead of 'processing'.
IndexerMarkSuccess(m) ==
    /\ impl = "indexer"
    /\ Active(m, "markProcessing")
    /\ updateIndexingStatus(queue[m].body, "success")
    /\ task' = [task EXCEPT ![m].pc = "index"]
    /\ UNCHANGED <<statusDocs, sink, metadata, deletedByWorker, vectorIndex>>
    /\ TaskFrame

\* await updateIndexingStatus(embeddingData, 'processing', requestId)
IndexerMarkProcessing(m) ==
    /\ impl = "indexer"
    /\ Active(m, "markProcessing")
    /\ updateIndexingStatus(queue[m].body, "processing")
    /\ task' = [task EXCEPT ![m].pc = "index"]
    /\ UNCHANGED <<statusDocs, sink, metadata, deletedByWorker, vectorIndex>>
    /\ TaskFrame

\* getOpenSearchClient, then client.index {id: chunkId}: the document is
\* indexed or one of the calls throws.
IndexerIndex(m) ==
    /\ impl = "indexer"
    /\ Active(m, "index")
    /\ \/ /\ sink' = sink \cup Chunks(queue[m].body)
          /\ task' = [task EXCEPT ![m].pc = "record"]
       \/ /\ sink' = sink
          /\ task' = [task EXCEPT ![m].pc = "failed"]
    /\ UNCHANGED <<statusDocs, metadata, deletedByWorker, indexStores>>
    /\ TaskFrame

\* storeVectorMetadata: PutObject, a failure is logged and swallowed.
storeVectorMetadata(d) ==
    \/ metadata' = metadata \cup {VectorMetadata(d, TRUE)}
    \/ metadata' = metadata

\* Promise.all([updateIndexingStatus('success'), storeVectorMetadata]).
IndexerRecord(m) ==
    /\ impl = "indexer"
    /\ Active(m, "record")
    /\ updateIndexingStatus(queue[m].body, "success")
    /\ storeVectorMetadata(queue[m].body)
    /\ task' = [task EXCEPT ![m].pc = "ok"]
    /\ UNCHANGED <<statusDocs, sink, deletedByWorker, vectorIndex>>
    /\ TaskFrame

IndexerTask(m) ==
    \/ IndexerParse(m)
    \/ IndexerDownload(m)
    \/ IndexerMarkProcessing(m)
    \/ IndexerIndex(m)
    \/ IndexerRecord(m)

\* ------------------------------------------------ handler of the indexer
\* The for loop: the task of the current record returned; the next starts.
IndexerLoop ==
    /\ impl = "indexer"
    /\ workerPc = "running"
    /\ recIdx <= Len(batch)
    /\ task[batch[recIdx]].pc = "ok"
    /\ task' = [j \in Msgs |->
                  IF j = batch[recIdx] THEN [IdleTask EXCEPT !.pc = "acked"]
                  ELSE IF recIdx < Len(batch) /\ j = batch[recIdx + 1]
                       THEN [task[j] EXCEPT !.pc = FirstPc]
                       ELSE task[j]]
    /\ recIdx' = recIdx + 1
    /\ UNCHANGED <<impl, reportBatchItemFailures, stores, queue, workerPc,
                   batch, batchItemFailures, pollerVars, restVars>>

\* catch: results.push(...); throw error.  The invocation fails.
IndexerThrow ==
    /\ impl = "indexer"
    /\ workerPc = "running"
    /\ recIdx <= Len(batch)
    /\ task[batch[recIdx]].pc = "failed"
    /\ task' = [task EXCEPT ![batch[recIdx]] = [IdleTask EXCEPT !.pc = "threw"]]
    /\ workerPc' = "threw"
    /\ EsmSettle({}, TRUE)
    /\ UNCHANGED <<impl, reportBatchItemFailures, stores, batch, recIdx,
                   batchItemFailures, pollerVars, restVars>>

\* The handler returns (Promise<void>): the response names no failure.
IndexerReturn ==
    /\ impl = "indexer"
    /\ workerPc = "running"
    /\ recIdx > Len(batch)
    /\ workerPc' = "returned"
    /\ EsmSettle({}, FALSE)
    /\ UNCHANGED <<impl, reportBatchItemFailures, stores, batch, recIdx, task,
                   batchItemFailures, pollerVars, restVars>>

\* ------------------------------------------------------------- Next, Spec
QueueStep ==
    \/ \E m \in Msgs, d \in Bodies : ProducerPut(m, d)
    \/ \E m \in Msgs : SqsDeadLetter(m)
    \/ WorkerInvoke
    \/ WorkerTimeout

NextWorker ==
    \/ QueueStep
    \/ WorkerReturn
    \/ \E m \in Msgs : StatusTask(m)
    \/ StatusLoop
    \/ \E m \in Msgs : ParallelTask(m)

\* Either version of the worker behind the status queue, whose event source
\* mapping has reportBatchItemFailures.
InitStatusWorker ==
    /\ bucket = {}
    /\ InitPoller
    /\ \E i \in {"sequential", "parallel"} : InitWorker(i, TRUE)
    /\ NoRequest
    /\ NoAux

SpecWorker == InitStatusWorker /\ [][NextWorker]_vars

NextIndexer ==
    \/ QueueStep
    \/ \E m \in Msgs : IndexerTask(m)
    \/ IndexerLoop
    \/ IndexerThrow
    \/ IndexerReturn

\* The indexer behind the processing queue, under the event source mapping
\* of either stack.
InitIndexer ==
    /\ bucket = {}
    /\ InitPoller
    /\ \E r \in BOOLEAN : InitWorker("indexer", r)
    /\ NoRequest
    /\ NoAux

SpecIndexer == InitIndexer /\ [][NextIndexer]_vars

\* ========================================================= the DLQ handler
\* The event source mapping of the dead-letter queue receives a batch of at
\* most dlqBatchSize messages and invokes the handler.
\* ApproximateReceiveCount counts the receives of a message across all
\* queues, so this receive adds to the receives the processing queue
\* counted.
DlqInvoke(B) ==
    /\ dlqPc = "idle"
    /\ B # {}
    /\ Cardinality(B) <= dlqBatchSize
    /\ \A m \in B : /\ queue[m].state = "dlq"
                    /\ queue[m].rc < maxReceiveCount + MaxDlqReceives
    /\ queue' = [m \in Msgs |->
                   IF m \in B
                   THEN [queue[m] EXCEPT !.state = "dlqInflight", !.rc = @ + 1]
                   ELSE queue[m]]
    /\ dlqPc' = "store"
    /\ dlqBatch' = IdSeq(B)
    /\ dlqIdx' = 1
    /\ dlqMsg' = IdSeq(B)[1]
    /\ dlqResults' = <<>>
    /\ UNCHANGED <<failureRecords, fallbackItems, dlqVersion, dlqBatchSize>>
    /\ UNCHANGED <<impl, reportBatchItemFailures, stores, invocation,
                   pollerVars, resolverVars, abandoned, auxVars>>

DlqFrame == UNCHANGED <<impl, reportBatchItemFailures, stores, invocation,
                        queue, dlqBatch, dlqVersion, dlqBatchSize,
                        pollerVars, resolverVars, abandoned, auxVars>>

\* The DlqRecord of processDlqRecord, stored under dlq-records/:
\* attemptCount is the message's ApproximateReceiveCount; n stands for the
\* timestamp of the key.
DlqRecord(m) ==
    [messageId |-> m,
     attemptCount |-> queue[m].rc,
     n |-> Cardinality({f \in failureRecords : f.messageId = m}) + 1,
     prefix |-> "dlq-records",
     documentId |-> queue[m].body]

\* The FailedVectorTask of processDlqMessage, stored under
\* failed-vectors/<documentId>/<chunkId>-<messageId>.json: the same key at
\* every receive of the message.
FailedVectorTask(m) ==
    [messageId |-> m,
     attemptCount |-> queue[m].rc,
     n |-> 1,
     prefix |-> "failed-vectors",
     documentId |-> queue[m].body]

\* The same loop whose catch block rethrows: the first failure ends the
\* invocation.
DlqAbortBatch(status) ==
    /\ dlqResults' = Append(dlqResults,
                            [messageId |-> dlqMsg, status |-> status])
    /\ IF dlqIdx < Len(dlqBatch) /\ status = "success"
       THEN /\ dlqIdx' = dlqIdx + 1
            /\ dlqMsg' = dlqBatch[dlqIdx + 1]
            /\ dlqPc' = "store"
       ELSE /\ dlqPc' = "return"
            /\ UNCHANGED <<dlqIdx, dlqMsg>>

\* The for loop of the handler after the record at dlqIdx: results.push
\* (processedCount / failedCount), then the next record or the end.
DlqAfterRecord(status) ==
    /\ dlqResults' = Append(dlqResults,
                            [messageId |-> dlqMsg, status |-> status])
    /\ IF dlqIdx < Len(dlqBatch)
       THEN /\ dlqIdx' = dlqIdx + 1
            /\ dlqMsg' = dlqBatch[dlqIdx + 1]
            /\ dlqPc' = "store"
       ELSE /\ dlqPc' = "return"
            /\ UNCHANGED <<dlqIdx, dlqMsg>>

\* storeDlqRecord / storeDlqFailureRecord: PutObject, or a throw that the
\* handler's catch logs.  processDlqRecord goes on to updateFailureStatus;
\* processDlqMessage is done.
DlqStore ==
    /\ dlqPc = "store"
    /\ \/ /\ dlqVersion = 1
          /\ failureRecords' = failureRecords \cup {DlqRecord(dlqMsg)}
          /\ dlqPc' = "status"
          /\ UNCHANGED <<dlqIdx, dlqMsg, dlqResults>>
       \/ /\ dlqVersion = 2
          /\ failureRecords' = failureRecords \cup {FailedVectorTask(dlqMsg)}
          /\ DlqAfterRecord("success")
       \/ /\ failureRecords' = failureRecords
          /\ DlqAfterRecord("failed")
    /\ UNCHANGED fallbackItems
    /\ DlqFrame

\* The marking whose failure is escalated: the handling of the record fails.
updateFailureStatusThrows ==
    /\ dlqPc = "status"
    /\ \/ /\ fallbackItems' = fallbackItems \cup {queue[dlqMsg].body}
          /\ DlqAfterRecord("success")
       \/ /\ fallbackItems' = fallbackItems
          /\ DlqAfterRecord("failed")
    /\ UNCHANGED failureRecords
    /\ DlqFrame

\* updateFailureStatus with the checkpoint table as its TableName: the
\* UpdateItem creates an item there.
updateFailureStatusInCheckpointTable ==
    /\ dlqPc = "status"
    /\ checkpointTable' = checkpointTable \cup {CheckpointRecord(0, NoKey)}
    /\ DlqAfterRecord("success")
    /\ UNCHANGED <<failureRecords, fallbackItems>>
    /\ UNCHANGED <<impl, reportBatchItemFailures, stores, invocation, queue,
                   dlqBatch, dlqVersion, dlqBatchSize, bucket, pollerPc,
                   pollerLocals, pollerOutcome, pollerHistory, resolverVars,
                   abandoned, auxVars>>

\* updateFailureStatus: UpdateItem under the fallback ids made from the hash
\* of the key; a failure is logged and swallowed.
updateFailureStatus ==
    /\ dlqPc = "status"
    /\ \/ fallbackItems' = fallbackItems \cup {queue[dlqMsg].body}
       \/ fallbackItems' = fallbackItems
    /\ DlqAfterRecord("success")
    /\ UNCHANGED failureRecords
    /\ DlqFrame

\* The handler returns (it never throws): the messages of the batch are
\* deleted.
DlqReturn ==
    /\ dlqPc = "return"
    /\ queue' = [m \in Msgs |->
                   IF m \in Range(dlqBatch)
                   THEN [queue[m] EXCEPT !.state = "dlqDone"]
                   ELSE queue[m]]
    /\ dlqPc' = "idle"
    /\ dlqMsg' = 0
    /\ dlqBatch' = <<>>
    /\ dlqIdx' = 0
    /\ dlqResults' = <<>>
    /\ UNCHANGED <<failureRecords, fallbackItems, dlqVersion, dlqBatchSize>>
    /\ UNCHANGED <<impl, reportBatchItemFailures, stores, invocation,
                   pollerVars, resolverVars, abandoned, auxVars>>

\* The invocation is abandoned: the messages are visible again in the
\* dead-letter queue.
DlqTimeout ==
    /\ dlqPc \in {"store", "status", "return"}
    /\ queue' = [m \in Msgs |->
                   IF m \in Range(dlqBatch)
                   THEN [queue[m] EXCEPT !.state = "dlq"]
                   ELSE queue[m]]
    /\ dlqPc' = "idle"
    /\ dlqMsg' = 0
    /\ dlqBatch' = <<>>
    /\ dlqIdx' = 0
    /\ dlqResults' = <<>>
    /\ UNCHANGED <<failureRecords, fallbackItems, dlqVersion, dlqBatchSize>>
    /\ UNCHANGED <<impl, reportBatchItemFailures, stores, invocation,
                   pollerVars, resolverVars, abandoned, auxVars>>

DlqStep ==
    \/ \E B \in SUBSET Msgs : DlqInvoke(B)
    \/ DlqStore
    \/ updateFailureStatus
    \/ DlqReturn
    \/ DlqTimeout

\* The indexer, its processing queue and the handler of its dead-letter
\* queue.
NextDlq ==
    \/ NextIndexer
    \/ DlqStep

\* The first stack: its event source mappings do not report batch item
\* failures.
InitDlqStack ==
    /\ bucket = {}
    /\ InitPoller
    /\ InitWorker("indexer", FALSE)
    /\ NoRequest
    /\ NoAux

SpecDlq == InitDlqStack /\ [][NextDlq]_vars

\* ===================================================== the Status Resolver
\* checkS3ObjectExists: HeadObject; 404 is false, another error is rethrown.
checkS3ObjectExists(exists, fault) ==
    IF fault THEN "throw" ELSE IF exists THEN "true" ELSE "false"

\* getVectorProcessingMetadata: the status attribute of the object
\* (default 'completed'), or null on an error.
getVectorProcessingMetadata(in) ==
    IF "success2" \in in.faults THEN "null"
    ELSE IF in.success \in {"full", "bare"} THEN "completed"
    ELSE "other"

\* checkVectorStorageError: errors/<documentId>.json exists: a failed
\* status; any error inside is swallowed and gives null.
checkVectorStorageError(in) ==
    IF /\ checkS3ObjectExists(in.failure, "failure1" \in in.faults) = "true"
       /\ "failure2" \notin in.faults
    THEN "failed"
    ELSE "null"

\* checkEmbeddingsExist: embeddings/<documentId>.json exists; an error is
\* swallowed and gives false.
checkEmbeddingsExist(in) ==
    checkS3ObjectExists(in.upstream # "none", "upstream" \in in.faults) = "true"

\* getDocumentVectorStorageStatus, lines 91-170.
getDocumentVectorStorageStatus1(in) ==
    LET vectorMetadataExists ==
            checkS3ObjectExists(in.success # "none", "success1" \in in.faults)
    IN IF vectorMetadataExists = "throw" THEN "failed"
       ELSE IF vectorMetadataExists = "true"
            THEN IF getVectorProcessingMetadata(in) = "completed"
                 THEN "completed"
                 ELSE "failed"
       ELSE IF checkVectorStorageError(in) # "null" THEN "failed"
       ELSE IF checkEmbeddingsExist(in) THEN "processing"
       ELSE "pending"

\* getVectorMetadata: the first object under vector-metadata/<documentId>/,
\* parsed; null when there is none and on any error.
getVectorMetadata(in) ==
    IF \/ "success1" \in in.faults
       \/ in.success = "none"
       \/ "success2" \in in.faults
       \/ in.success = "other"
    THEN "null"
    ELSE in.success

\* checkEmbeddingsExistAndAreCompleted: embedding-status/<documentId>.json
\* has status 'completed'; false on any error.
checkEmbeddingsExistAndAreCompleted(in) ==
    "upstream" \notin in.faults /\ in.upstream = "completed"

\* getDocumentVectorStorageStatus, lines 406-470.  Reading
\* vectorMetadata.embeddingSummary.totalChunks of a record without
\* embeddingSummary throws, and the catch block returns 'failed'.
getDocumentVectorStorageStatus2(in) ==
    LET vectorMetadata == getVectorMetadata(in)
    IN IF vectorMetadata = "full" THEN "completed"
       ELSE IF vectorMetadata = "bare" THEN "failed"
       ELSE IF checkEmbeddingsExistAndAreCompleted(in) THEN "processing"
       ELSE "pending"

\* handler: GET /status/{documentId}.
StatusRequest ==
    /\ resolverOut = "none"
    /\ resolverOut' = IF resolverIn.version = 1
                      THEN getDocumentVectorStorageStatus1(resolverIn)
                      ELSE getDocumentVectorStorageStatus2(resolverIn)
    /\ UNCHANGED <<resolverIn, queryDoc, queryHadRecord, dlqVars, pollerVars,
                   abandoned, auxVars>>
    /\ UNCHANGED <<impl, reportBatchItemFailures, stores, queue, invocation>>

NextResolver == StatusRequest

InitResolver ==
    /\ bucket = {}
    /\ InitPoller
    /\ InitWorker("none", FALSE)
    /\ resolverIn \in ResolverInputs
    /\ resolverOut = "none"
    /\ NoQuery
    /\ NoAux

SpecResolver == InitResolver /\ [][NextResolver]_vars

\* =============================================== part_006: the promise pool
InitCore ==
    /\ bucket = {}
    /\ InitPoller
    /\ InitWorker("none", FALSE)
    /\ NoRequest

\* const maxConcurrency = Math.min(event.Records.length, 8)
maxConcurrency(n) == IF n < 8 THEN n ELSE 8

Running == {j \in 1..Len(poolRecs) : poolRecs[j] = "running"}

\* event.Records.map(async (record) => ...): the callback of every record
\* is called by map and runs up to its first await, so every record's task
\* is under way when map returns.
PoolInvoke(n) ==
    /\ poolPc \in {"idle", "returned"}
    /\ poolRecs' = [j \in 1..n |-> "running"]
    /\ poolIdx' = 0
    /\ poolPc' = "await"
    /\ PoolFrame

\* processVectorTask of record j returns or throws; the callback catches.
PoolSettle(j) ==
    /\ poolPc = "await"
    /\ j \in Running
    /\ \E r \in {"ok", "failed"} : poolRecs' = [poolRecs EXCEPT ![j] = r]
    /\ UNCHANGED <<poolIdx, poolPc>>
    /\ PoolFrame

\* await Promise.allSettled(processPromises.slice(i, i + maxConcurrency))
PoolAwait ==
    /\ poolPc = "await"
    /\ poolIdx < Len(poolRecs)
    /\ \A j \in (poolIdx + 1)..(poolIdx + maxConcurrency(Len(poolRecs))) :
          j <= Len(poolRecs) => j \notin Running
    /\ poolIdx' = poolIdx + maxConcurrency(Len(poolRecs))
    /\ UNCHANGED <<poolRecs, poolPc>>
    /\ PoolFrame

\* return { batchItemFailures }
PoolReturn ==
    /\ poolPc = "await"
    /\ poolIdx >= Len(poolRecs)
    /\ poolPc' = "returned"
    /\ UNCHANGED <<poolRecs, poolIdx>>
    /\ PoolFrame

NextPool ==
    \/ \E n \in 1..MaxRecords : PoolInvoke(n)
    \/ \E j \in 1..MaxRecords : PoolSettle(j)
    \/ PoolAwait
    \/ PoolReturn

InitPool ==
    /\ InitCore
    /\ NoAux

SpecPool == InitPool /\ [][NextPool]_vars

\* ======================================================= the Request Signer
\* sign(method, url, body, correlationId) -> {headers}: fails if ambient
\* credentials are absent or if the assembled headers miss the date, the
\* content hash or the authorization field.
createSignedRequest(in) ==
    IF /\ in.credentials
       /\ in.date
       /\ in.contentHash
       /\ in.authorization
    THEN "headers"
    ELSE "fail"

\* const signedRequest = await createSignedRequest('POST', testUrl, ...)
testCreateSignedRequestFunction ==
    /\ signerOut = "none"
    /\ signerOut' = createSignedRequest(signerIn)
    /\ UNCHANGED <<signerIn, upsertPayloads, sinkRequest>>
    /\ SignerFrame

\* upsertVectorsToHomeServer of the status worker: no payloads, no request;
\* else fetch(url, { method: 'POST', headers: { 'Content-Type',
\* 'x-request-id' }, body }).  The Request Signer is not called.
upsertVectorsToHomeServer ==
    /\ sinkRequest = "none"
    /\ sinkRequest' = IF upsertPayloads = 0 THEN "skipped" ELSE "sent"
    /\ UNCHANGED <<signerIn, signerOut, upsertPayloads>>
    /\ SignerFrame

NextSigner ==
    \/ testCreateSignedRequestFunction
    \/ upsertVectorsToHomeServer

InitSigner ==
    /\ InitCore
    /\ NoPool
    /\ NoPrep
    /\ NoSearch
    /\ NoTail
    /\ signerIn \in SignerInputs
    /\ signerOut = "none"
    /\ upsertPayloads \in 0..MaxPayloads
    /\ sinkRequest = "none"

SpecSigner == InitSigner /\ [][NextSigner]_vars

\* ================= the DLQ handler and the Status Resolver on one bucket
\* An object errors/<documentId>.json of the metadata bucket: what
\* checkVectorStorageError looks for.
ErrorObjectExists(d) ==
    \E f \in failureRecords : f.prefix = "errors" /\ f.documentId = d

\* A status request that stores the status it derived in the metadata
\* bucket.
StatusQueryCaching(d, v, succ, up, faults) ==
    /\ resolverOut = "none"
    /\ LET in == [version |-> v, success |-> succ,
                  failure |-> ErrorObjectExists(d),
                  upstream |-> up, faults |-> faults]
       IN /\ resolverIn' = in
          /\ resolverOut' = IF v = 1
                            THEN getDocumentVectorStorageStatus1(in)
                            ELSE getDocumentVectorStorageStatus2(in)
    /\ queryDoc' = d
    /\ queryHadRecord' = \E f \in failureRecords : f.documentId = d
    /\ metadata' = metadata \cup {VectorMetadata(d, FALSE)}
    /\ UNCHANGED <<dlqVars, pollerVars, abandoned, auxVars>>
    /\ UNCHANGED <<impl, reportBatchItemFailures, statusDocs, sink,
                   deletedByWorker, indexStores, queue, invocation>>

\* GET /status/{documentId} against the metadata bucket as the DLQ handler
\* left it.  The success record and the upstream artifact are written by
\* other components; faults is the set of reads that fail.
StatusQuery(d, v, succ, up, faults) ==
    /\ resolverOut = "none"
    /\ LET in == [version |-> v, success |-> succ,
                  failure |-> ErrorObjectExists(d),
                  upstream |-> up, faults |-> faults]
       IN /\ resolverIn' = in
          /\ resolverOut' = IF v = 1
                            THEN getDocumentVectorStorageStatus1(in)
                            ELSE getDocumentVectorStorageStatus2(in)
    /\ queryDoc' = d
    /\ queryHadRecord' = \E f \in failureRecords : f.documentId = d
    /\ UNCHANGED <<dlqVars, pollerVars, abandoned, auxVars>>
    /\ UNCHANGED <<impl, reportBatchItemFailures, stores, queue, invocation>>

\* No failing read, or one.
QueryFaults == {{}} \cup {{r} : r \in Reads}

NextDlqStatus ==
    \/ DlqStep
    \/ \E d \in Docs, v \in {1, 2}, succ \in {"none", "full"},
          up \in {"none", "incomplete", "completed"}, faults \in QueryFaults :
          StatusQuery(d, v, succ, up, faults)

\* Every message has used up its receives and is in the dead-letter queue;
\* either DLQ handler, with any batch size.
InitDlqStatus ==
    /\ bucket = {}
    /\ InitPoller
    /\ WorkerIdle("indexer", FALSE)
    /\ \E b \in [Msgs -> Bodies] :
          queue = [m \in Msgs |->
                     [state |-> "dlq", rc |-> maxReceiveCount, body |-> b[m]]]
    /\ abandoned = [m \in Msgs |-> "none"]
    /\ DlqIdle
    /\ dlqVersion \in {1, 2}
    /\ dlqBatchSize \in 1..MaxBatch
    /\ NoRequest
    /\ NoAux

SpecDlqStatus == InitDlqStatus /\ [][NextDlqStatus]_vars

\* The DLQ handler alone on the dead-lettered messages.
NextDlqBatch == DlqStep

SpecDlqBatch == InitDlqStatus /\ [][NextDlqBatch]_vars

\* ================================== part_005: prepareUpsertPayloads
\* status.chunkReferences: chunk ids in the order of the status document.
PrepRefSeqs ==
    {s \in UNION {[1..n -> 1..MaxChunks] : n \in 0..MaxChunks} :
        \A i, j \in 1..Len(s) : i # j => s[i] # s[j]}

\* const upsertPayloads = await prepareUpsertPayloads(embeddingStatus, ...)
PrepBegin ==
    /\ prepPc = "idle"
    /\ prepIdx' = 1
    /\ prepPc' = IF Len(prepRefs) = 0 THEN "upsert" ELSE "chunk"
    /\ UNCHANGED <<prepRefs, prepDl, prepPayloads, prepRequest, prepOk>>
    /\ PrepFrame

\* One of the two downloads of Promise.all([downloadS3TextObject,
\* downloadS3JsonObject]) ends.
PrepDownload(which) ==
    /\ prepPc = "chunk"
    /\ prepDl[which] = "pending"
    /\ \E r \in {"ok", "failed"} : prepDl' = [prepDl EXCEPT ![which] = r]
    /\ UNCHANGED <<prepRefs, prepIdx, prepPayloads, prepPc, prepRequest,
                   prepOk>>
    /\ PrepFrame

\* for (const ref of status.chunkReferences): the next reference, or
\* return payloads.
PrepNextChunk ==
    /\ prepIdx' = prepIdx + 1
    /\ prepDl' = [content |-> "pending", embedding |-> "pending"]
    /\ prepPc' = IF prepIdx < Len(prepRefs) THEN "chunk" ELSE "upsert"

\* payloads.unshift instead of payloads.push.
PrepChunkOkUnshift ==
    /\ prepPc = "chunk"
    /\ prepDl.content = "ok"
    /\ prepDl.embedding = "ok"
    /\ prepPayloads' = <<prepRefs[prepIdx]>> \o prepPayloads
    /\ prepOk' = prepOk \cup {prepRefs[prepIdx]}
    /\ PrepNextChunk
    /\ UNCHANGED <<prepRefs, prepRequest>>
    /\ PrepFrame

\* Both downloads are there: payloads.push({ ..., chunkId: ref.chunkId }).
PrepChunkOk ==
    /\ prepPc = "chunk"
    /\ prepDl.content = "ok"
    /\ prepDl.embedding = "ok"
    /\ prepPayloads' = Append(prepPayloads, prepRefs[prepIdx])
    /\ prepOk' = prepOk \cup {prepRefs[prepIdx]}
    /\ PrepNextChunk
    /\ UNCHANGED <<prepRefs, prepRequest>>
    /\ PrepFrame

\* A download failed: Promise.all rejects, the catch block logs and the
\* loop goes on.
PrepChunkSkip ==
    /\ prepPc = "chunk"
    /\ \/ prepDl.content = "failed"
       \/ prepDl.embedding = "failed"
    /\ PrepNextChunk
    /\ UNCHANGED <<prepRefs, prepPayloads, prepRequest, prepOk>>
    /\ PrepFrame

\* upsertVectorsToHomeServer(upsertPayloads): body { chunks: payloads }; no
\* request for no payloads.
PrepUpsert ==
    /\ prepPc = "upsert"
    /\ prepRequest' = prepPayloads
    /\ prepPc' = "done"
    /\ UNCHANGED <<prepRefs, prepIdx, prepDl, prepPayloads, prepOk>>
    /\ PrepFrame

NextPrepare ==
    \/ PrepBegin
    \/ \E which \in {"content", "embedding"} : PrepDownload(which)
    \/ PrepChunkOk
    \/ PrepChunkSkip
    \/ PrepUpsert

InitPrepare ==
    /\ InitCore
    /\ NoPool
    /\ NoSigner
    /\ NoSearch
    /\ NoTail
    /\ prepRefs \in PrepRefSeqs
    /\ prepIdx = 0
    /\ prepDl = [content |-> "pending", embedding |-> "pending"]
    /\ prepPayloads = <<>>
    /\ prepPc = "idle"
    /\ prepRequest = <<>>
    /\ prepOk = {}

SpecPrepare == InitPrepare /\ [][NextPrepare]_vars

\* ================================================ the search API
\* Scores and thresholds are counted in tenths: 7 stands for 0.7.
Scores == 0..MaxScore

\* request.threshold: absent, or a number.
Thresholds ==
    {[given |-> FALSE, value |-> 0]} \cup [given : {TRUE}, value : Scores]

SearchRequests ==
    [threshold : Thresholds,
     hits : UNION {[1..n -> Scores] : n \in 0..MaxHits}]

\* const threshold = request.threshold || 0.0: an absent threshold and a
\* threshold of 0 both give 0.
effectiveThreshold(req) ==
    IF ~req.threshold.given \/ req.threshold.value = 0
    THEN 0
    ELSE req.threshold.value

\* performVectorSearch: the hits of the index with _score >= threshold, and
\* metadata.threshold.
performVectorSearch(req) ==
    [status |-> "ok",
     results |-> SelectSeq(req.hits,
                           LAMBDA h : h >= effectiveThreshold(req)),
     threshold |-> effectiveThreshold(req)]

\* handler: POST /search.
SearchRequest ==
    /\ searchResp = NoResponse
    /\ searchResp' = performVectorSearch(searchReq)
    /\ UNCHANGED searchReq
    /\ SearchFrame

NextSearch == SearchRequest

InitSearch ==
    /\ InitCore
    /\ NoPool
    /\ NoSigner
    /\ NoPrep
    /\ NoTail
    /\ searchReq \in SearchRequests
    /\ searchResp = NoResponse

SpecSearch == InitSearch /\ [][NextSearch]_vars

\* ====================================== overlapping Scanner invocations
\* The rule starts the function every 30 seconds, the function may run for
\* 15 minutes and has no reserved concurrency: a second invocation can run
\* beside the first. Both share the bucket, the queue and the checkpoint
\* table; each has its own locals.
RunningInvocation ==
    [pollerPc |-> pollerPc, checkpoint |-> checkpoint,
     newObjects |-> newObjects, objIdx |-> objIdx,
     processedCount |-> processedCount,
     lastContiguousKey |-> lastContiguousKey,
     lastContiguousTimestamp |-> lastContiguousTimestamp]

\* The other invocation takes the next step: the one that was stepping is
\* suspended at its await (a finished invocation leaves nothing behind).
PollerSwitch ==
    /\ pollerPc # "idle" \/ otherInvocation.pollerPc # "idle"
    /\ otherInvocation' = IF pollerPc = "idle" THEN IdleInvocation
                          ELSE RunningInvocation
    /\ pollerPc' = otherInvocation.pollerPc
    /\ checkpoint' = otherInvocation.checkpoint
    /\ newObjects' = otherInvocation.newObjects
    /\ objIdx' = otherInvocation.objIdx
    /\ processedCount' = otherInvocation.processedCount
    /\ lastContiguousKey' = otherInvocation.lastContiguousKey
    /\ lastContiguousTimestamp' = otherInvocation.lastContiguousTimestamp
    /\ UNCHANGED <<bucket, checkpointTable, pollerOutcome, pollerHistory>>
    /\ UNCHANGED <<impl, reportBatchItemFailures, stores, queue, invocation,
                   dlqVars, resolverVars, abandoned, poolVars, signerVars,
                   prepVars, searchVars, altVars, signVars>>

\* Two invocations whose reads and checkpoint writes succeed, with a producer
\* that creates its objects in key order and never gives two artifacts one
\* timestamp.
NextOverlap ==
    \/ \E k \in KeyUniverse : ArriveDistinctTs(k)
    \/ PollerGetCheckpoint
    \/ PollerList
    \/ PollerCheckEmpty
    \/ PollerEnqueueOk
    \/ PollerEnqueueFail
    \/ PollerUpdateCheckpoint
    \/ PollerSwitch

SpecOverlap == Init /\ [][NextOverlap]_vars

\* ======================================== the S3 poller of part_004
\* The poller that processes each embedding file itself and keeps its
\* checkpoint by LastModified.  An object is written at the time its name
\* carries, so LastModified is the key's timestamp.
AltFrame ==
    UNCHANGED <<bucket, pollerPc, pollerLocals, pollerOutcome, pollerHistory,
                impl, reportBatchItemFailures, stores, queue, invocation,
                dlqVars, resolverVars, abandoned, poolVars, signerVars,
                prepVars, searchVars, otherInvocation, signVars>>

LastModified(k) == k.ts

\* The locals of a run that starts.
AltStart(cp, fault) ==
    /\ altPc' = "list"
    /\ altCheckpoint' = cp
    /\ altFault' = fault
    /\ altObjects' = <<>>
    /\ altIdx' = 0
    /\ altLast' = cp
    /\ altOutcome' = "running"
    /\ altProcessed' = {}
    /\ altWrote' = FALSE
    /\ UNCHANGED checkpointTable
    /\ AltFrame

\* getCurrentCheckpoint(): GetItem answers; the item, or the default
\* checkpoint when there is none.
getCurrentCheckpoint ==
    /\ altPc = "idle"
    /\ AltStart(IF checkpointTable = {} THEN DefaultCheckpoint
                ELSE CHOOSE c \in checkpointTable : TRUE,
                "none")

\* getCurrentCheckpoint(): GetItem throws; the catch block logs "No existing
\* checkpoint found" and the default checkpoint is returned.
getCurrentCheckpointCatch ==
    /\ altPc = "idle"
    /\ AltStart(DefaultCheckpoint, "checkpoint")

\* listNewObjects(): one page of the bucket, the .json objects modified after
\* the checkpoint, sorted by LastModified.
listNewObjects(cp) ==
    SelectSeq(Take(SortedSeq(bucket), AltMaxKeys),
              LAMBDA k : k.kind = "json"
                         /\ LastModified(k) > cp.lastProcessedTimestamp)

\* const newObjects = await listNewObjects(...); return when there is none.
AltList ==
    /\ altPc = "list"
    /\ altObjects' = listNewObjects(altCheckpoint)
    /\ IF Len(listNewObjects(altCheckpoint)) = 0
       THEN /\ altPc' = "idle"
            /\ altOutcome' = "ok"
            /\ altIdx' = altIdx
       ELSE /\ altPc' = "loop"
            /\ altOutcome' = altOutcome
            /\ altIdx' = 1
    /\ UNCHANGED <<checkpointTable, altCheckpoint, altLast, altFault,
                   altProcessed, altWrote>>
    /\ AltFrame

\* listNewObjects() throws: the handler rethrows.
AltListFail ==
    /\ altPc = "list"
    /\ altPc' = "idle"
    /\ altOutcome' = "error"
    /\ altFault' = "list"
    /\ UNCHANGED <<checkpointTable, altCheckpoint, altObjects, altIdx,
                   altLast, altProcessed, altWrote>>
    /\ AltFrame

AltAfterIteration ==
    IF altIdx < Len(altObjects)
    THEN /\ altIdx' = altIdx + 1
         /\ altPc' = "loop"
    ELSE /\ altIdx' = altIdx
         /\ altPc' = "checkpoint"

\* processEmbeddingFile(obj.Key, obj.LastModified) stores the metadata
\* object; the tracking variables advance.
processEmbeddingFile ==
    /\ altPc = "loop"
    /\ LET obj == altObjects[altIdx]
       IN /\ altProcessed' = altProcessed \cup {obj}
          /\ altLast' = CheckpointRecord(LastModified(obj), obj)
    /\ AltAfterIteration
    /\ UNCHANGED <<checkpointTable, altCheckpoint, altObjects, altOutcome,
                   altFault, altWrote>>
    /\ AltFrame

\* processEmbeddingFile throws: logged, "Continue processing other files".
processEmbeddingFileFail ==
    /\ altPc = "loop"
    /\ AltAfterIteration
    /\ UNCHANGED <<checkpointTable, altCheckpoint, altObjects, altLast,
                   altOutcome, altFault, altProcessed, altWrote>>
    /\ AltFrame

\* if (lastProcessedKey !== checkpoint.lastProcessedKey) updateCheckpoint().
AltUpdateCheckpoint ==
    /\ altPc = "checkpoint"
    /\ IF altLast.lastProcessedKey # altCheckpoint.lastProcessedKey
       THEN /\ checkpointTable' = {altLast}
            /\ altWrote' = TRUE
       ELSE /\ checkpointTable' = checkpointTable
            /\ altWrote' = altWrote
    /\ altPc' = "idle"
    /\ altOutcome' = "ok"
    /\ UNCHANGED <<altCheckpoint, altObjects, altIdx, altLast, altFault,
                   altProcessed>>
    /\ AltFrame

\* updateCheckpoint() throws: the handler rethrows.
AltUpdateCheckpointFail ==
    /\ altPc = "checkpoint"
    /\ altLast.lastProcessedKey # altCheckpoint.lastProcessedKey
    /\ altPc' = "idle"
    /\ altOutcome' = "error"
    /\ UNCHANGED <<checkpointTable, altCheckpoint, altObjects, altIdx,
                   altLast, altFault, altProcessed, altWrote>>
    /\ AltFrame

NextAlt ==
    \/ \E k \in KeyUniverse : ArriveDistinctTs(k)
    \/ getCurrentCheckpoint
    \/ getCurrentCheckpointCatch
    \/ AltList
    \/ AltListFail
    \/ processEmbeddingFile
    \/ processEmbeddingFileFail
    \/ AltUpdateCheckpoint
    \/ AltUpdateCheckpointFail

SpecAlt == Init /\ [][NextAlt]_vars

\* ============================ the checkpoint table beside the other parts
\* The Scanner over a bucket of one artifact, the status worker of part_005
\* on one message, the DLQ handler once that message is dead-lettered, and
\* status requests, all running beside one another.
InitShared ==
    /\ bucket = {[ts |-> 1, hash |-> 1, kind |-> "json"]}
    /\ InitPoller
    /\ impl = "sequential"
    /\ reportBatchItemFailures = TRUE
    /\ statusDocs = {1}
    /\ sink = {}
    /\ metadata = {}
    /\ deletedByWorker = {}
    /\ vectorIndex = {}
    /\ indexStatus = [d \in Docs |-> "none"]
    /\ workerPc = "idle"
    /\ batch = <<>>
    /\ recIdx = 0
    /\ task = [m \in Msgs |-> IdleTask]
    /\ batchItemFailures = <<>>
    /\ queue = [m \in Msgs |->
                  IF m = 1 THEN [state |-> "visible", rc |-> 0, body |-> 1]
                  ELSE [state |-> "unsent", rc |-> 0, body |-> 0]]
    /\ abandoned = [m \in Msgs |-> "none"]
    /\ DlqIdle
    /\ dlqVersion \in {1, 2}
    /\ dlqBatchSize = 1
    /\ NoRequest
    /\ NoAux

NextShared ==
    \/ PollerGetCheckpoint
    \/ PollerList
    \/ PollerCheckEmpty
    \/ PollerEnqueueOk
    \/ PollerEnqueueFail
    \/ PollerUpdateCheckpoint
    \/ \E m \in Msgs : SqsDeadLetter(m)
    \/ WorkerInvoke
    \/ WorkerTimeout
    \/ WorkerReturn
    \/ \E m \in Msgs : StatusTask(m)
    \/ StatusLoop
    \/ DlqStep
    \/ \E v \in {1, 2}, faults \in {{}, {"success1"}} :
          StatusQuery(1, v, "none", "completed", faults)

SpecShared == InitShared /\ [][NextShared]_vars

\* ================================= the Request Signer on two requests
\* The assertion the signature is computed over: POST to the STS endpoint
\* with the body Action=GetCallerIdentity&Version=2011-06-15.
AssertionRequest == [url |-> "sts", body |-> 0]

SignCalls ==
    {SignCall(c, t, u, b) : c \in 1..MaxIdentities, t \in 1..MaxSignTime,
                            u \in {"upsert", "search"}, b \in 1..MaxBodies}

\* A Signature Version 4 signature: determined by the secret of the
\* credentials, the signing date and the canonical request (url and payload
\* hash), and different when one of them differs.
SignatureV4(credentials, time, request) ==
    [credentials |-> credentials, time |-> time, url |-> request.url,
     body |-> request.body]

\* The signature computed over the request that is sent.
signOverRequest(call) ==
    SignatureV4(call.credentials, call.time,
                [url |-> call.url, body |-> call.body])

\* The signature of createSignedRequest(method, url, body, requestId): over
\* the fixed assertion, whatever url and body are.
signOverAssertion(call) ==
    SignatureV4(call.credentials, call.time, AssertionRequest)

\* const signedRequest = await createSignedRequest('POST', testUrl, testBody)
SignCallStep(i) ==
    /\ signSig[i] = NoSignature
    /\ signSig' = [signSig EXCEPT ![i] = signOverAssertion(signReq[i])]
    /\ UNCHANGED <<signReq, signSts>>
    /\ UNCHANGED <<coreVars, poolVars, signerVars, prepVars, searchVars,
                   otherInvocation, altVars>>

\* fetch(stsUrl, { headers: { ...signedRequest.headers, ... }, body: stsBody }):
\* STS accepts the headers when they sign this very request.
StsValidate(i) ==
    /\ signSig[i] # NoSignature
    /\ signSts[i] = "none"
    /\ signSts' = [signSts EXCEPT ![i] =
                     IF signSig[i] = SignatureV4(signReq[i].credentials,
                                                 signReq[i].time,
                                                 AssertionRequest)
                     THEN "ok"
                     ELSE "SignatureDoesNotMatch"]
    /\ UNCHANGED <<signReq, signSig>>
    /\ UNCHANGED <<coreVars, poolVars, signerVars, prepVars, searchVars,
                   otherInvocation, altVars>>

NextSign ==
    \/ \E i \in {1, 2} : SignCallStep(i)
    \/ \E i \in {1, 2} : StsValidate(i)

InitSign ==
    /\ InitCore
    /\ NoPool
    /\ NoSigner
    /\ NoPrep
    /\ NoSearch
    /\ otherInvocation = IdleInvocation
    /\ NoAlt
    /\ signReq \in SignCalls \X SignCalls
    /\ signSig = <<NoSignature, NoSignature>>
    /\ signSts = <<"none", "none">>

SpecSign == InitSign /\ [][NextSign]_vars

\* ====================== one task from the queue to its terminal outcome
\* The status worker of part_005 behind the status queue and the first DLQ
\* handler behind its dead-letter queue, on one task message; invocations of
\* the DLQ handler run to their end.
InitPipeline ==
    /\ bucket = {}
    /\ InitPoller
    /\ InitDlq
    /\ WorkerIdle("sequential", TRUE)
    /\ queue = [m \in Msgs |->
                  IF m = 1 THEN [state |-> "unsent", rc |-> 0, body |-> 0]
                  ELSE [state |-> "done", rc |-> 1, body |-> 0]]
    /\ NoRequest
    /\ NoAux

NextPipeline ==
    \/ \E d \in Docs : ProducerPut(1, d)
    \/ \E m \in Msgs : SqsDeadLetter(m)
    \/ WorkerInvoke
    \/ WorkerTimeout
    \/ WorkerReturn
    \/ \E m \in Msgs : StatusTask(m)
    \/ StatusLoop
    \/ \E B \in SUBSET Msgs : DlqInvoke(B)
    \/ DlqStore
    \/ updateFailureStatus
    \/ DlqReturn

\* The event source mappings keep invoking the handlers while messages are
\* there, and a handler that was invoked goes on to its end.
PipelineFairness ==
    /\ WF_vars(\E m \in Msgs : SqsDeadLetter(m))
    /\ WF_vars(WorkerInvoke)
    /\ WF_vars(WorkerReturn)
    /\ WF_vars(\E m \in Msgs : StatusTask(m))
    /\ WF_vars(StatusLoop)
    /\ WF_vars(\E B \in SUBSET Msgs : DlqInvoke(B))
    /\ WF_vars(DlqStore)
    /\ WF_vars(updateFailureStatus)
    /\ WF_vars(DlqReturn)

SpecPipeline == InitPipeline /\ [][NextPipeline]_vars /\ PipelineFairness

\* ============== status requests while the status worker handles its task
\* What ListObjectsV2 on vector-metadata/<documentId>/ and the GetObject of
\* its first key give: a record createVectorMetadata wrote (it carries the
\* embeddingSummary of the status document), or nothing.
WorkerRecordOf(d) ==
    IF \E r \in metadata : r.documentId = d THEN "full" ELSE "none"

\* embedding-status/<documentId>.json as the producer wrote it and the
\* worker deletes it.
EmbeddingStatusOf(d) ==
    IF d \in statusDocs THEN "completed" ELSE "none"

\* GET /status/{documentId} of the resolver of lines 406-470 against the
\* buckets as the worker of part_005 has left them; faults is the set of
\* reads that fail.
StatusQueryLive(d, faults) ==
    /\ resolverOut = "none"
    /\ LET in == [version |-> 2, success |-> WorkerRecordOf(d),
                  failure |-> ErrorObjectExists(d),
                  upstream |-> EmbeddingStatusOf(d), faults |-> faults]
       IN /\ resolverIn' = in
          /\ resolverOut' = getDocumentVectorStorageStatus2(in)
    /\ queryDoc' = d
    /\ queryHadRecord' = \E f \in failureRecords : f.documentId = d
    /\ UNCHANGED <<dlqVars, pollerVars, abandoned, auxVars>>
    /\ UNCHANGED <<impl, reportBatchItemFailures, stores, queue, invocation>>

NextLiveStatus ==
    \/ NextPipeline
    \/ \E d \in Docs, faults \in QueryFaults : StatusQueryLive(d, faults)

SpecLiveStatus == InitPipeline /\ [][NextLiveStatus]_vars

\* ================================================================= claims
LastOf(s) == s[Len(s)]

OkKeys(log) == SelectSeq(log, LAMBDA e : e.ok)

\* C1: over every sequence of Scanner runs the stored lastProcessedTimestamp
\* never decreases (and the record is never removed), and it is always the
\* timestamp of an artifact whose enqueue succeeded.
C1_CheckpointMonotone ==
    [][/\ \A c \in checkpointTable : \E d \in checkpointTable' :
              d.lastProcessedTimestamp >= c.lastProcessedTimestamp
       /\ \A d \in checkpointTable' : \E k \in enqueuedEver' :
              extractTimestampFromKey(k) = d.lastProcessedTimestamp]_vars

\* C1 witness: a second run in a row has advanced the checkpoint, after an
\* enqueue failure.
C1_Witness ==
    /\ wrote /\ prevWrote
    /\ \E i \in 1..Len(prevLog) : ~prevLog[i].ok
    /\ \E c \in checkpointTable : c.lastProcessedTimestamp > 1

\* C2: every validly named artifact in the bucket whose timestamp is less
\* than or equal to the checkpoint's has been enqueued successfully.
C2_NoGapBehindCheckpoint ==
    \A c \in checkpointTable : \A k \in bucket :
        (isTimestampHashKey(k)
         /\ extractTimestampFromKey(k) <= c.lastProcessedTimestamp)
        => k \in enqueuedEver

\* C3: within one run nothing is attempted after the first enqueue failure,
\* and the checkpoint the run writes is the last candidate enqueued before
\* that failure.
C3_StopAtFirstFailure ==
    /\ \A i \in 1..Len(runLog) : ~runLog[i].ok => i = Len(runLog)
    /\ \A i \in 1..Len(runLog) : runLog[i].key = newObjects[i]
    /\ wrote =>
          /\ OkKeys(runLog) # <<>>
          /\ checkpointTable =
               {CheckpointRecord(
                    extractTimestampFromKey(LastOf(OkKeys(runLog)).key),
                    LastOf(OkKeys(runLog)).key)}
    /\ (pollerPc = "idle" /\ pollerOutcome = "ok" /\ OkKeys(runLog) # <<>>)
          => wrote

\* C3 witness: a run whose second enqueue failed has
\* written the checkpoint of its first candidate.
C3_Witness ==
    /\ pollerPc = "idle" /\ wrote
    /\ Len(runLog) = 2 /\ runLog[1].ok /\ ~runLog[2].ok
    /\ Len(newObjects) > 1
    /\ \E c \in checkpointTable : c.lastProcessedKey = newObjects[1]

\* C4: the tasks enqueued in one run are in ascending key and timestamp
\* order.
C4_AscendingWithinRun ==
    \A i, j \in 1..Len(runLog) :
        (i < j /\ runLog[i].ok /\ runLog[j].ok)
        => /\ KeyOrd(runLog[i].key) < KeyOrd(runLog[j].key)
           /\ extractTimestampFromKey(runLog[i].key)
                <= extractTimestampFromKey(runLog[j].key)

\* C4 witness: one run has enqueued two tasks.
C4_Witness ==
    /\ Len(runLog) = 2 /\ runLog[1].ok /\ runLog[2].ok

\* C5: starting from an absent checkpoint, the candidates are exactly the
\* validly named keys of the bucket, up to the batch cap; a run whose
\* enqueues all succeed enqueues exactly these and leaves the checkpoint at
\* the last of them.
C5_FirstRunEnqueuesValidKeys ==
    /\ (pollerPc = "listed" /\ checkpoint = {})
          => newObjects =
               Take(SortedSeq({k \in bucketAtList : isTimestampHashKey(k)}),
                    BATCH_SIZE)
    /\ (/\ pollerPc = "idle" /\ pollerOutcome = "ok" /\ checkpoint = {}
        /\ runLog # <<>> /\ \A i \in 1..Len(runLog) : runLog[i].ok)
          => /\ [i \in 1..Len(runLog) |-> runLog[i].key] = newObjects
             /\ checkpointTable =
                  {CheckpointRecord(
                       extractTimestampFromKey(LastOf(newObjects)),
                       LastOf(newObjects))}

\* C6: when the enqueue of the k-th candidate of a run failed (k > 1) the
\* checkpoint is at candidate k-1, and the next run lists candidate k again
\* and none of the candidates before it.
C6_FailedCandidateRelisted ==
    (/\ pollerPc = "listed" /\ prevWrote
     /\ Len(prevLog) >= 2 /\ ~LastOf(prevLog).ok)
    => /\ checkpoint =
            {CheckpointRecord(
                 extractTimestampFromKey(prevLog[Len(prevLog) - 1].key),
                 prevLog[Len(prevLog) - 1].key)}
       /\ LastOf(prevLog).key \in Range(newObjects)
       /\ \A i \in 1..(Len(prevLog) - 1) :
             prevLog[i].key \notin Range(newObjects)

\* C7: with runs that keep occurring and calls that succeed in the end,
\* every validly named artifact in the bucket is eventually enqueued.
C7_EveryArtifactEnqueued ==
    \A k \in ValidKeys : (k \in bucket) ~> (k \in enqueuedEver)

\* ------------------------------------------------------------------- C8
\* The deliveries of the batch whose task ended with a throw / with a return.
FailedOfBatch == {m \in Range(batch) : task[m].pc = "reported"}

SucceededOfBatch == {m \in Range(batch) : task[m].pc = "acked"}

\* C8: partial-batch containment.  When the handler of the status worker
\* (either version) has returned, the deliveries named in batchItemFailures
\* are exactly the deliveries of the batch whose processing failed, every
\* other delivery of the batch is acknowledged (removed from the queue), and
\* every failed one is back in the queue for a retry (or, its receive count
\* used up, in the dead-letter queue).
C8_PartialBatchContainment ==
    workerPc = "returned" =>
        /\ Range(batchItemFailures) = FailedOfBatch
        /\ Len(batchItemFailures) = Cardinality(FailedOfBatch)
        /\ Range(batch) = FailedOfBatch \cup SucceededOfBatch
        /\ \A m \in SucceededOfBatch : queue[m].state = "done"
        /\ \A m \in FailedOfBatch : queue[m].state \in {"visible", "dlq"}

\* A returned batch of two with one failed and one successful delivery.
C8_Witness ==
    /\ workerPc = "returned"
    /\ Len(batch) = 2
    /\ Cardinality(FailedOfBatch) = 1
    /\ Cardinality(SucceededOfBatch) = 1
    /\ \E m \in SucceededOfBatch : queue[m].state = "done" /\ queue[m].body # 0
    /\ \E m \in FailedOfBatch : queue[m].state = "visible"

\* ------------------------------------------------------------------- C9
\* C9: sibling isolation.  When an invocation of the indexer has ended (by a
\* return or by a throw), every delivery of its batch has been processed,
\* and every delivery whose own processing succeeded is acknowledged: it is
\* not back in the queue with a receive counted against it.
C9_SiblingIsolation ==
    workerPc \in {"returned", "threw"} =>
        \A m \in Range(batch) :
            /\ task[m].pc # "waiting"
            /\ task[m].pc = "acked" => queue[m].state = "done"

\* ------------------------------------------------------------------ C10
\* C10: write-then-delete ordering.  If the worker has deleted the status
\* object of a document, a metadata record of that document exists, and the
\* records of that document were written after a successful upsert to the
\* sink in the same task.
C10_WriteThenDelete ==
    \A d \in deletedByWorker :
        /\ \E r \in metadata : r.documentId = d
        /\ \A r \in metadata : r.documentId = d => r.upserted

\* ------------------------------------------------------------------ C11
\* The entries the worker's store holds for the chunk of embedding object d.
EntriesOf(d) == {e \in vectorIndex : e.documentId = d}

\* C11: idempotent delivery.  However often the same embedding object is
\* processed (a redelivery, a second notification), the store the worker
\* writes to holds at most one entry for its chunk, and the sink holds
\* chunk ids of the documents only.
C11_IdempotentDelivery ==
    /\ \A d \in Docs : Cardinality(EntriesOf(d)) <= 1
    /\ sink \subseteq UNION {Chunks(d) : d \in Docs}

\* ------------------------------------------------------------------ C12
\* C12: zero chunks survive => the task fails.  A task of the status worker
\* that prepared no chunk of its status document never gets past the upsert
\* step: it does not write the metadata record, delete the status object or
\* return normally.
C12_ZeroSurvivorsFail ==
    \A m \in Msgs :
        (/\ impl = "sequential"
         /\ queue[m].body # 0
         /\ task[m].pc \in {"metadata", "delete", "ok"})
            => task[m].survivors # {}

\* ------------------------------------------------------------------ C13
\* C13: only a success response with a JSON body lets the task go on.  A
\* task of the status worker that sent an upsert request and is past the
\* upsert step (writing the metadata record, deleting the status object,
\* returning normally) got a success response whose body parsed as JSON.
C13_NonJsonResponseFails ==
    \A m \in Msgs :
        (/\ impl = "sequential"
         /\ task[m].pc \in {"metadata", "delete", "ok"}
         /\ task[m].resp # "none")
            => task[m].resp = "ok_json"

\* ------------------------------------------------------------------ C14
\* C14: validation before any sink call.  A task of the status worker whose
\* assembled chunk collection does not satisfy the upsert schema sends no
\* upsert request and goes no further: it has no response from the sink and
\* does not write the metadata record or delete the status object.
C14_ValidatedBeforeSinkCall ==
    \A m \in Msgs :
        (impl = "sequential" /\ ~task[m].valid) =>
            /\ task[m].resp = "none"
            /\ task[m].pc \notin {"metadata", "delete", "ok"}

\* ------------------------------------------------------------------ C15
\* C15: terminal convergence.  A message is in the dead-letter queue only
\* after maxReceiveCount deliveries to the worker, a message the worker can
\* still receive has been delivered at most maxReceiveCount times, and every
\* failure record has attemptCount = maxReceiveCount.
C15_TerminalConvergence ==
    /\ \A m \in Msgs :
          /\ queue[m].state \in {"dlq", "dlqInflight", "dlqDone"}
                => queue[m].rc >= maxReceiveCount
          /\ queue[m].state \in {"visible", "inflight"}
                => queue[m].rc <= maxReceiveCount
    /\ \A f \in failureRecords : f.attemptCount = maxReceiveCount

\* ------------------------------------------------------------------ C16
\* The failure records written for message m.
RecordsOf(m) == {f \in failureRecords : f.messageId = m}

\* C16: a failure record for every consumed dead-letter delivery.  A message
\* the DLQ handler has consumed (it is deleted from the dead-letter queue)
\* has exactly one failure record, and no message has more than one.
C16_FailureRecordPersisted ==
    \A m \in Msgs :
        /\ Cardinality(RecordsOf(m)) <= 1
        /\ queue[m].state = "dlqDone" => Cardinality(RecordsOf(m)) = 1

\* ------------------------------------------------------------------ C17
\* The first match of the resolution order.
FirstMatch(in) ==
    IF in.success # "none" THEN "completed"
    ELSE IF in.failure THEN "failed"
    ELSE IF in.upstream = "completed" THEN "processing"
    ELSE "pending"

\* C17: resolution order.  When every read succeeds, the success record, if
\* there is one, is well formed and the upstream artifact, if there is one,
\* is fully completed, the Status Resolver returns the first match of:
\* success record => completed; failure record => failed; fully completed
\* upstream artifact => processing; otherwise pending.
C17_ResolutionOrder ==
    (/\ resolverOut # "none"
     /\ resolverIn.faults = {}
     /\ resolverIn.success \in {"none", "full"}
     /\ resolverIn.upstream \in {"none", "completed"})
        => resolverOut = FirstMatch(resolverIn)

\* ------------------------------------------------------------------ C18
\* C18: the Status Resolver reports failed only when a failure record of the
\* document exists.
C18_FailedOnlyWithFailureRecord ==
    resolverOut = "failed" => resolverIn.failure

\* ------------------------------------------------------------------ C19
\* C19: a duplicate enqueue is absorbed.  A delivery of the status worker
\* for a status document that an earlier task has processed and deleted
\* does not end as a failed task.
C19_DuplicateAbsorbed ==
    \A m \in Msgs :
        (/\ impl = "sequential"
         /\ queue[m].body \in deletedByWorker
         /\ queue[m].body \notin statusDocs)
            => task[m].pc # "failed"

C22_RunCappedAtBatchSize ==
    /\ Len(newObjects) <= BATCH_SIZE
    /\ Len(runLog) <= BATCH_SIZE
    /\ Len(OkKeys(runLog)) <= BATCH_SIZE
    /\ processedCount <= BATCH_SIZE

\* A run that listed a bucket holding more than BATCH_SIZE valid keys and
\* enqueued exactly BATCH_SIZE of them.
C22_Witness ==
    /\ Cardinality({k \in bucketAtList : isTimestampHashKey(k)}) > BATCH_SIZE
    /\ Len(OkKeys(runLog)) = BATCH_SIZE
    /\ processedCount = BATCH_SIZE

\* ------------------------------------------------------------------ C21
\* C21: bounded worker concurrency.  At every moment of an invocation of
\* the part_006 handler at most K = min(batch length, 8) records are being
\* processed.
C21_BoundedConcurrency ==
    Cardinality(Running) <= maxConcurrency(Len(poolRecs))

\* ------------------------------------------------------------------ C23
\* C23: the Request Signer returns headers only when ambient credentials
\* are present and the assembled headers hold the date, content-hash and
\* authorization fields; otherwise it fails, and the worker sends a request
\* to the sink only with headers the signer returned.
C23_SignedOrNotSent ==
    /\ signerOut = "headers" =>
          /\ signerIn.credentials
          /\ signerIn.date
          /\ signerIn.contentHash
          /\ signerIn.authorization
    /\ sinkRequest = "sent" => signerOut = "headers"

\* ------------------------------------------------------------------ C24
\* C24: the Status Resolver is read-only.  A step that answers a status
\* request leaves the metadata store, the upstream artifact stores, the
\* index, the queues and the checkpoint as they were.
C24_ResolverReadOnly ==
    [][resolverOut' # resolverOut =>
          UNCHANGED <<metadata, failureRecords, fallbackItems, statusDocs,
                      bucket, sink, vectorIndex, indexStatus, queue,
                      checkpointTable>>]_vars

\* A request was answered while the metadata bucket held a failure record
\* of the requested document.
C24_Witness ==
    /\ resolverOut # "none"
    /\ queryHadRecord
    /\ \E f \in failureRecords : f.documentId = queryDoc

\* ------------------------------------------------------------------ C28
\* C28: after the DLQ handler has persisted a failure record for a
\* document without a success record, a status request for the document
\* returns failed.
C28_FailureRecordFound ==
    (/\ resolverOut # "none"
     /\ queryHadRecord
     /\ resolverIn.success = "none"
     /\ resolverIn.faults = {})
        => resolverOut = "failed"

\* ------------------------------------------------------------------ C29
\* C29: in the DLQ handler a failure on one record does not stop the batch:
\* the handler has handled every record before the current one, and when it
\* returns it has handled every record of the batch, in order.
C29_EveryRecordAttempted ==
    /\ dlqPc \in {"store", "status"} => Len(dlqResults) = dlqIdx - 1
    /\ dlqPc = "return" => Len(dlqResults) = Len(dlqBatch)
    /\ \A i \in 1..Len(dlqResults) :
          /\ i <= Len(dlqBatch)
          /\ dlqResults[i].messageId = dlqBatch[i]

\* The handling of the first record of a batch of two failed and the
\* second record was handled with success.
C29_Witness ==
    /\ dlqPc = "return"
    /\ Len(dlqBatch) = 2
    /\ Len(dlqResults) = 2
    /\ dlqResults[1].status = "failed"
    /\ dlqResults[2].status = "success"

\* ------------------------------------------------------------------ C30
\* C30: in the first DLQ handler the failure record is persisted before
\* the attempt to mark the status item as failed; whatever the outcome of
\* the marking, the record stays and the handling of the message succeeds:
\* a record is handled as failed only when its failure record was not
\* stored.
ThisReceiveRecord(m) ==
    {f \in failureRecords : /\ f.messageId = m
                            /\ f.attemptCount = queue[m].rc
                            /\ f.prefix = "dlq-records"}

C30_RecordBeforeMarking ==
    dlqVersion = 1 =>
        /\ dlqPc = "status" => ThisReceiveRecord(dlqMsg) # {}
        /\ \A i \in 1..Len(dlqResults) :
              dlqResults[i].status = "success"
                 <=> ThisReceiveRecord(dlqResults[i].messageId) # {}

\* The marking failed (no item for the task), the failure record is there
\* and the handling of the message succeeded.
C30_Witness ==
    /\ dlqVersion = 1
    /\ dlqPc = "return"
    /\ \E i \in 1..Len(dlqResults) :
          /\ dlqResults[i].status = "success"
          /\ ThisReceiveRecord(dlqResults[i].messageId) # {}
          /\ queue[dlqResults[i].messageId].body \notin fallbackItems

\* ------------------------------------------------------------------ C25
\* C25: a chunk whose preparation fails is skipped.  The payloads are at
\* every moment the chunks prepared with success, in chunk-reference
\* order; the task goes on to the upsert only after every reference was
\* handled, and the upsert request holds exactly those payloads.
C25_PartialDelivery ==
    /\ prepPayloads = SelectSeq(prepRefs, LAMBDA c : c \in prepOk)
    /\ prepPc \in {"upsert", "done"} => prepIdx = Len(prepRefs) + 1
    /\ prepPc = "done" => prepRequest = prepPayloads

\* Three references, not in ascending id order; the preparation of the
\* second failed, the request holds the first and the third.
C25_Witness ==
    /\ prepPc = "done"
    /\ Len(prepRefs) = 3
    /\ prepRefs[1] > prepRefs[3]
    /\ prepRefs[2] \notin prepOk
    /\ prepRequest = <<prepRefs[1], prepRefs[3]>>

\* ------------------------------------------------------------------ C26
\* C26: every result of POST /search has a score of at least the effective
\* threshold, which is 0.7 when the request gives none, and
\* metadata.threshold of the response is that effective threshold.
C26_SearchThreshold ==
    searchResp.status = "ok" =>
        LET effective == IF searchReq.threshold.given
                         THEN searchReq.threshold.value
                         ELSE 7
        IN /\ \A i \in 1..Len(searchResp.results) :
                 searchResp.results[i] >= effective
           /\ searchResp.threshold = effective


\* C27: under every interleaving of two Scanner invocations the stored
\* checkpoint never regresses below a value written earlier (nor is it
\* removed), and no artifact of the bucket is behind the checkpoint without
\* having been enqueued.
C27_OverlapTolerated ==
    [][/\ \A c \in checkpointTable : \E d \in checkpointTable' :
              d.lastProcessedTimestamp >= c.lastProcessedTimestamp
       /\ \A d \in checkpointTable' : \A k \in bucket' :
              (isTimestampHashKey(k)
               /\ extractTimestampFromKey(k) <= d.lastProcessedTimestamp)
              => k \in enqueuedEver']_vars


\* C31: a Scanner run that ended without a successful enqueue (no candidate,
\* or the first enqueue failed) has written nothing: the checkpoint table
\* still holds what the run read at its start.
C31_NoEnqueueNoWrite ==
    (pollerPc = "idle" /\ pollerOutcome = "ok" /\ OkKeys(runLog) = <<>>)
        => /\ ~wrote
           /\ checkpointTable = checkpoint

\* C31 witness: a run whose first enqueue failed has ended, and the record
\* written by the run before it is still there.
C31_Witness ==
    /\ pollerPc = "idle" /\ pollerOutcome = "ok"
    /\ Len(runLog) = 1 /\ ~runLog[1].ok
    /\ prevWrote /\ ~wrote
    /\ checkpointTable # {}


\* C32: a run of the poller whose checkpoint read or bucket listing threw
\* fails, processes nothing and writes no checkpoint; a failed read is not
\* replaced by the start-of-time checkpoint.
C32_ReadFailureFailsRun ==
    altFault # "none" =>
        /\ altPc = "idle"
        /\ altOutcome = "error"
        /\ altProcessed = {}
        /\ ~altWrote


C34_MetadataAppendOnly ==
    [][/\ metadata \subseteq metadata'
       /\ \A m \in Msgs :
             (/\ impl = "sequential"
              /\ task[m].pc = "metadata"
              /\ task'[m].pc = "delete")
                => /\ Cardinality(metadata' \ metadata) = 1
                   /\ \A r \in metadata' \ metadata :
                         r.documentId = queue[m].body]_vars

\* C34 witness: the worker has just written a second record of a document
\* whose first record is still there, in a task that upserted the chunks.
C34_Witness ==
    \E m \in Msgs :
        /\ impl = "sequential"
        /\ Active(m, "delete")
        /\ task[m].upserted
        /\ Cardinality({r \in metadata : r.documentId = queue[m].body
                                         /\ r.upserted}) >= 2


C36_IndexStatusOrder ==
    [][\A d \in Docs :
          /\ (indexStatus'[d] = "processing" /\ indexStatus[d] # "processing")
                => \E m \in Msgs : /\ queue[m].body = d
                                   /\ task[m].pc = "markProcessing"
                                   /\ task'[m].pc = "index"
          /\ (indexStatus'[d] = "success" /\ indexStatus[d] # "success")
                => \E m \in Msgs : /\ queue[m].body = d
                                   /\ task[m].pc = "record"
                                   /\ Chunks(d) \subseteq sink
          /\ indexStatus'[d] = "success" => Chunks(d) \subseteq sink']_vars

\* C36 witness: a redelivered task runs again for a chunk that is recorded
\* as 'success'; its status is back at 'processing' with the chunk in the
\* sink, and the record of another chunk says 'success'.
C36_Witness ==
    \E m \in Msgs, d \in Docs :
        /\ impl = "indexer"
        /\ Active(m, "index")
        /\ queue[m].body # 0
        /\ queue[m].body # d
        /\ indexStatus[queue[m].body] = "processing"
        /\ Chunks(queue[m].body) \subseteq sink
        /\ indexStatus[d] = "success"
        /\ Chunks(d) \subseteq sink


\* The two terminal outcomes of the task of message m.
Completed(m) ==
    /\ queue[m].state = "done"
    /\ \E r \in metadata : r.documentId = queue[m].body

DeadLettered(m) ==
    /\ queue[m].state \in {"dlq", "dlqInflight", "dlqDone"}
    /\ \E f \in failureRecords : f.messageId = m

\* C37: every task placed on the queue eventually reaches exactly one
\* terminal outcome: a metadata record and an acknowledged delivery, or the
\* dead-letter queue and a failure record; never both.
C37_OneTerminalOutcome ==
    /\ \A m \in Msgs :
          (queue[m].state = "visible" /\ queue[m].body # 0)
              ~> (Completed(m) \/ DeadLettered(m))
    /\ [](\A m \in Msgs : ~(Completed(m) /\ DeadLettered(m)))


\* C38: completed is stable: a status request made after the worker wrote a
\* metadata record for the document returns completed, whether or not the
\* source status document is deleted yet and after any redelivery.
C38_CompletedStable ==
    \A d \in Docs :
        (/\ queryDoc = d
         /\ resolverOut # "none"
         /\ resolverIn.success # "none")
            => resolverOut = "completed"


\* C39: the checkpoint record is internally consistent in every reachable
\* state: its key is a validly named artifact key and its timestamp is the
\* timestamp prefix of that key.
C39_CheckpointConsistent ==
    \A r \in checkpointTable :
        /\ isTimestampHashKey(r.lastProcessedKey)
        /\ r.lastProcessedKey \in ValidKeys
        /\ r.lastProcessedTimestamp
               = extractTimestampFromKey(r.lastProcessedKey)

\* A run that had a checkpoint to start from wrote a new one, with a key of
\* another name in the bucket.
C39_Witness ==
    /\ wrote
    /\ pollerPc = "idle"
    /\ checkpoint # {}
    /\ checkpointTable # checkpoint
    /\ \E k \in bucket : ~isTimestampHashKey(k)

====
